---- MODULE Spec2Model ----
(***************************************************************************)
(* Two workflow task-clustering schedulers driven by reservation events:   *)
(*   - LevelByLevelWMS  (src/src/LevelByLevelAlgorithm/LevelByLevelWMS.cpp) *)
(*   - ZhangClusteringWMS                                                   *)
(*               (src/src/ZhangClusteringAlgorithm/ZhangClusteringWMS.cpp)  *)
(* together with the part of the execution substrate they react to (task   *)
(* states, reservations, the FIFO event mailbox).                          *)
(*                                                                         *)
(* Times are integer seconds; a double multiplied by the fudge factor 1.1  *)
(* and cast to unsigned long is the integer (x * 11) \div 10.              *)
(***************************************************************************)
EXTENDS Integers, Sequences, FiniteSets, TLC

VARIABLES
    \* ---- execution substrate (Task Graph View, Reservation Service) ----
    taskState,        \* task -> "NotReady" | "Ready" | "Pending" | "Completed"
    taskRes,          \* task -> reservation it was last dispatched to (0: none, -1: singleton request)
    resStatus,        \* reservation id -> "queued" | "started" | "expired" | "terminated"
    events,           \* FIFO mailbox of the scheduler
    expirations,      \* number of reservations that have expired so far
    \* ---- configuration (the workflow and the constructor arguments) ----
    wms,              \* the scheduler of the run: "LevelByLevel" | "Zhang"
    workflow,         \* the workflow of the run: "chain" | "wide" | "deep"
    clustering_spec,  \* LevelByLevelWMS::clustering_spec, a sequence of characters
    overlap,
    plimit,
    number_of_hosts,
    \* ---- scheduler state ----
    pc,               \* position in main(): "loop" | "wait" | "done" | "fatal"
    ph,               \* arena of every placeholder job created: id -> record
    ongoing_levels,   \* LevelByLevelWMS: level_number -> OngoingLevel
    pending_placeholder_job,   \* ZhangClusteringWMS (0 is nullptr)
    running_placeholder_jobs,  \* ZhangClusteringWMS
    individual_mode,           \* ZhangClusteringWMS
    parent_runtime,            \* static double parent_runtime
    \* ---- observation of what the scheduler asked of the substrate ----
    termReq,          \* reservation id -> number of terminateJob() calls made for it
    last              \* what the last scheduler step did

vars == <<taskState, taskRes, resStatus, events, expirations,
          wms, workflow, clustering_spec, overlap, plimit, number_of_hosts,
          pc, ph, ongoing_levels,
          pending_placeholder_job, running_placeholder_jobs, individual_mode,
          parent_runtime, termReq, last>>

envVars   == <<taskState, taskRes, resStatus, events, expirations>>
cfgVars   == <<wms, workflow, clustering_spec, overlap, plimit, number_of_hosts>>
zhangVars == <<pending_placeholder_job, running_placeholder_jobs, individual_mode,
               parent_runtime>>

-----------------------------------------------------------------------------
(* Bounds of the model *)

\* how many reservations may expire in one run of the Level-by-Level scheduler
MaxExpirationsLBL == 2

\* how many reservations may expire in one run of the Dynamic Grouping scheduler
MaxExpirationsZhang == 1

\* how many reservations may expire in one run on the wide workflow
MaxExpirationsWide == 1

\* how many more reservations may expire while their start event is still in
\* the mailbox, in the runs that allow it
MaxEarlyExpirations == 1

\* the largest start-time estimate, and the latest date of a query, of the
\* wait-time queries checked one by one
MaxEstimate == 8
MaxDate == 5

\* how many events may wait in the mailbox when the substrate adds more
MaxQueue == 3

\* the bound of the run
MaxExpirations ==
    IF workflow = "wide" THEN MaxExpirationsWide
    ELSE IF wms = "LevelByLevel" THEN MaxExpirationsLBL
    ELSE MaxExpirationsZhang

-----------------------------------------------------------------------------
(* Small helpers *)

Max(S) == CHOOSE x \in S : \A y \in S : y <= x

MinOf(a, b) == IF a <= b THEN a ELSE b

MaxOf(a, b) == IF a >= b THEN a ELSE b

Range(s) == {s[i] : i \in DOMAIN s}

\* the fudge factor 1.1 applied to a duration, truncated to whole seconds
EXECUTION_TIME_FUDGE_FACTOR(x) == (x * 11) \div 10

-----------------------------------------------------------------------------
(* The workflows of the runs.                                              *)
(*   "chain": four tasks in three levels, 1 -> 3 -> 4 and the leaf 2 in    *)
(*            level 0, so level 1 can complete while level 0 still runs;   *)
(*   "wide":  one level of five independent tasks;                         *)
(*   "deep":  four tasks in four levels, 1 -> 2 -> 3 -> 4.                 *)

Tasks == IF workflow = "wide" THEN 1..5 ELSE 1..4

TaskOrder == IF workflow = "wide" THEN <<1, 2, 3, 4, 5>> ELSE <<1, 2, 3, 4>>

\* WorkflowTask::getTopLevel
TaskLevel ==
    IF workflow = "wide" THEN <<0, 0, 0, 0, 0>>
    ELSE IF workflow = "deep" THEN <<0, 1, 2, 3>> ELSE <<0, 0, 1, 2>>

TaskParents ==
    IF workflow = "wide" THEN <<{}, {}, {}, {}, {}>>
    ELSE IF workflow = "deep" THEN <<{}, {1}, {2}, {3}>> ELSE <<{}, {}, {1}, {3}>>

\* execution time of a task on one core: getFlops() / core_speed
TaskSeconds ==
    IF workflow = "wide" THEN <<40, 40, 40, 40, 40>>
    ELSE IF workflow = "deep" THEN <<40, 60, 40, 100>> ELSE <<40, 40, 60, 100>>

getNumLevels == 1 + Max({TaskLevel[t] : t \in Tasks})

getTaskChildren(t) == {c \in Tasks : t \in TaskParents[c]}

\* Workflow::getTasksInTopLevelRange: the tasks of levels lo..hi, in order
getTasksInTopLevelRange(lo, hi) ==
    LET InRange(t) == lo <= TaskLevel[t] /\ TaskLevel[t] <= hi
    IN  SelectSeq(TaskOrder, InRange)

isDone == \A t \in Tasks : taskState[t] = "Completed"

InitialTaskState == [t \in Tasks |-> IF TaskParents[t] = {} THEN "Ready" ELSE "NotReady"]

\* makespan of a set of tasks of one or more levels on a number of nodes:
\* level after level, each level in waves of at most `nodes` tasks
estimateMakespan(tasks, nodes) ==
    LET LevelTime(l) ==
            LET ts == {t \in tasks : TaskLevel[t] = l}
            IN  IF ts = {} \/ nodes = 0 THEN 0
                ELSE ((Cardinality(ts) + nodes - 1) \div nodes)
                        * Max({TaskSeconds[t] : t \in ts})
        Sum[l \in 0..getNumLevels] ==
            IF l = getNumLevels THEN 0 ELSE LevelTime(l) + Sum[l + 1]
    IN  Sum[0]

\* the "-t" argument: 1 + ((unsigned long) duration) / 60 minutes
WallTimeMinutes(duration) == 1 + (duration \div 60)

-----------------------------------------------------------------------------
(* Observation record of the last scheduler step *)

NoStep(op) ==
    [op |-> op,              \* "init" | "tick" | "start" | "expire" | "complete" | "failure"
     arg |-> 0,              \* the reservation or task of the event handled
     job |-> 0,              \* the placeholder job the handler located (0: none)
     created |-> {},         \* placeholder jobs created by the step
     terminated |-> {},      \* reservations terminateJob() was called for
     dispatched |-> {},      \* tasks submitted to a running reservation
     singles |-> {},         \* tasks submitted as singleton requests
     work |-> {},            \* the not-Completed tasks, when the step ran, of the levels
                             \* a tick considered or of the job a handler located
     prePending |-> {},      \* levels whose bucket held a pending job before the step
                             \* (Dynamic Grouping: the pending job before the step)
     start_level |-> -1,     \* getStartLevel() of the decision pass the step ran
                             \* (-1: no pass, or the pass returned early)
     partial_dag_end_level |-> -1,  \* the end level groupLevels() returned (-1: none)
     break_level |-> -1,     \* the candidate end level at which the loop of
                             \* groupLevels() took its break (-1: it did not)
     error |-> "none"]       \* the fatal error the step raised

CompletedNow == {t \in Tasks : taskState[t] = "Completed"}

NotCompletedOf(st, ts) == {t \in ts : st[t] # "Completed"}

-----------------------------------------------------------------------------
(* The execution substrate: what the scheduler's requests do to it *)

\* JobManager::terminateJob on reservation r: a queued or started reservation
\* is killed; for one that is already gone the call raises
\* WorkflowExecutionException
terminateJobFails(rs, r) == rs[r] \notin {"queued", "started"}

terminateJob(rs, r) == IF terminateJobFails(rs, r) THEN rs ELSE [rs EXCEPT ![r] = "terminated"]

\* the scan of the completion handlers stopped at the placeholder job of the
\* completed task: children held by another running placeholder job are skipped
ReadyChildrenInOwnPlaceholder(st, completed_task, running, phs) ==
    {c \in getTaskChildren(completed_task) :
        /\ st[c] = "Ready"
        /\ \E x \in running : c \in phs[x].tasks /\ completed_task \in phs[x].tasks}

\* "Start all newly ready tasks that depended on the completed task, IN ANY
\*  PLACEHOLDER": the children of the completed task that are READY and held by
\* a running placeholder job
ReadyChildrenInAnyPlaceholder(st, completed_task, running, phs) ==
    {c \in getTaskChildren(completed_task) :
        /\ st[c] = "Ready"
        /\ \E x \in running : c \in phs[x].tasks}

\* submitJob of one StandardJob per task of ts to reservation r (-1: to the
\* batch service itself, as a singleton request): the tasks become Pending
DispatchedState(st, ts) == [t \in Tasks |-> IF t \in ts THEN "Pending" ELSE st[t]]

DispatchedRes(tr, ts, r) == [t \in Tasks |-> IF t \in ts THEN r ELSE tr[t]]

\* a queued reservation starts
Env_PilotJobStarts(r) ==
    /\ Len(events) < MaxQueue
    /\ r \in DOMAIN resStatus
    /\ resStatus[r] = "queued"
    /\ resStatus' = [resStatus EXCEPT ![r] = "started"]
    /\ events' = Append(events, [type |-> "PilotJobStarted", id |-> r])
    /\ UNCHANGED <<taskState, taskRes, expirations>>

\* a dispatched task completes inside its (still live) reservation; its
\* children whose parents are now all Completed become Ready
Env_TaskCompletes(t) ==
    /\ Len(events) < MaxQueue
    /\ taskState[t] = "Pending"
    /\ taskRes[t] = -1 \/ (taskRes[t] \in DOMAIN resStatus /\ resStatus[taskRes[t]] = "started")
    /\ LET done == CompletedNow \cup {t}
       IN  taskState' = [c \in Tasks |->
                IF c = t THEN "Completed"
                ELSE IF taskState[c] = "NotReady" /\ TaskParents[c] \subseteq done
                     THEN "Ready" ELSE taskState[c]]
    /\ events' = Append(events, [type |-> "StandardJobCompleted", id |-> t])
    /\ UNCHANGED <<taskRes, resStatus, expirations>>

\* a started reservation, whose start the scheduler has handled, reaches the
\* end of its wall time: the tasks still running in it fail (back to Ready),
\* their failure events are delivered and the expiration event follows
Env_PilotJobExpires(r) ==
    /\ Len(events) < MaxQueue
    /\ expirations < MaxExpirations
    /\ r \in DOMAIN resStatus
    /\ resStatus[r] = "started"
    /\ \A i \in DOMAIN events : ~(events[i].type = "PilotJobStarted" /\ events[i].id = r)
    /\ LET failed == {t \in Tasks : taskState[t] = "Pending" /\ taskRes[t] = r}
           IsFailed(t) == t \in failed
           failures == SelectSeq(TaskOrder, IsFailed)
       IN  /\ taskState' = [t \in Tasks |-> IF t \in failed THEN "Ready" ELSE taskState[t]]
           /\ events' = events
                  \o [i \in 1..Len(failures) |-> [type |-> "StandardJobFailed", id |-> failures[i]]]
                  \o <<[type |-> "PilotJobExpired", id |-> r]>>
    /\ resStatus' = [resStatus EXCEPT ![r] = "expired"]
    /\ expirations' = expirations + 1
    /\ UNCHANGED taskRes

\* the start event of reservation r is still in the mailbox
StartInFlight(r) ==
    \E i \in DOMAIN events : events[i].type = "PilotJobStarted" /\ events[i].id = r

\* a started reservation reaches the end of its wall time before the scheduler
\* has handled its start: nothing runs in it yet, the expiration event follows
\* the start event in the mailbox
Env_PilotJobExpiresEarly(r) ==
    /\ Len(events) < MaxQueue
    /\ expirations < MaxExpirations + MaxEarlyExpirations
    /\ r \in DOMAIN resStatus
    /\ resStatus[r] = "started"
    /\ StartInFlight(r)
    /\ events' = Append(events, [type |-> "PilotJobExpired", id |-> r])
    /\ resStatus' = [resStatus EXCEPT ![r] = "expired"]
    /\ expirations' = expirations + 1
    /\ UNCHANGED <<taskState, taskRes>>

\* the event waitForAndProcessNextEvent() returns next
NextEvent == Head(events)

-----------------------------------------------------------------------------
(* LevelByLevelWMS: the clustering spec *)

Digits == <<"0", "1", "2", "3", "4", "5", "6", "7", "8", "9">>

IsDigit(c) == \E i \in 1..10 : Digits[i] = c

DigitVal(c) == (CHOOSE i \in 1..10 : Digits[i] = c) - 1

\* std::getline(ss, token, '-') until it fails: the tokens between dashes; a
\* trailing empty token is not produced
Tokenize(str) ==
    LET Go[i \in 1..(Len(str) + 1)] ==
            \* <<tokens so far, current token>> after reading str[1..i-1]
            IF i = 1 THEN <<<<>>, <<>>>>
            ELSE LET prev == Go[i - 1]
                     c == str[i - 1]
                 IN  IF c = "-" THEN <<Append(prev[1], prev[2]), <<>>>>
                     ELSE <<prev[1], Append(prev[2], c)>>
        fin == Go[Len(str) + 1]
    IN  IF fin[2] = <<>> THEN fin[1] ELSE Append(fin[1], fin[2])

\* sscanf(token, "%lu", &v): the leading decimal digits; fails (returns 0)
\* when the token does not begin with a digit
ScanULong(token) ==
    LET Go[i \in 0..Len(token)] ==
            \* <<still in the leading digits, value>> after token[1..i]
            IF i = 0 THEN <<TRUE, 0>>
            ELSE LET prev == Go[i - 1]
                 IN  IF prev[1] /\ IsDigit(token[i])
                     THEN <<TRUE, prev[2] * 10 + DigitVal(token[i])>>
                     ELSE <<FALSE, prev[2]>>
    IN  [ok |-> Len(token) >= 1 /\ IsDigit(token[1]), val |-> Go[Len(token)][2]]

-----------------------------------------------------------------------------
(* LevelByLevelWMS: clustering of one level *)

\* a ClusteredJob wrapped in a PlaceHolderJob together with the PilotJob
\* created for it: createPilotJob(num_nodes, 1, 0, makespan * FUDGE) and the
\* "-N", "-c", "-t" arguments of its submission
PlaceHolderJob(tasks, num_nodes, start_level, end_level) ==
    LET makespan == estimateMakespan(tasks, num_nodes)
        duration == EXECUTION_TIME_FUDGE_FACTOR(makespan)
    IN  [tasks |-> tasks,
         num_nodes |-> num_nodes,
         start_level |-> start_level,
         end_level |-> end_level,
         num_completed_tasks |-> 0,
         pilot_num_hosts |-> num_nodes,
         pilot_cores |-> 1,
         pilot_duration |-> duration,
         arg_N |-> num_nodes,
         arg_c |-> 1,
         arg_t |-> WallTimeMinutes(duration)]

\* StaticClusteringWMS::createHCJobs("none", k, m, workflow, level, level):
\* the not-Completed tasks of the levels, in order, in chunks of k tasks,
\* every chunk on m nodes
createHCJobs(num_tasks_per_cluster, num_nodes_per_cluster, lo, hi) ==
    LET NotCompleted(t) == taskState[t] # "Completed"
        ts == SelectSeq(getTasksInTopLevelRange(lo, hi), NotCompleted)
        n == Len(ts)
        k == num_tasks_per_cluster
    IN  [i \in 1..((n + k - 1) \div k) |->
            [tasks |-> {ts[j] : j \in ((i - 1) * k + 1)..MinOf(i * k, n)},
             num_nodes |-> num_nodes_per_cluster]]

\* a clustering of a level that takes the two numbers of the spec in the
\* other order
createPlaceHolderJobsForLevelSwapped(level) ==
    LET tokens == Tokenize(clustering_spec)
        k == ScanULong(tokens[3])
        m == ScanULong(tokens[2])
        cjs == createHCJobs(k.val, m.val, level, level)
    IN  [error |-> "none",
         jobs |-> [i \in 1..Len(cjs) |->
                    PlaceHolderJob(cjs[i].tasks, cjs[i].num_nodes, level, level)]]

\* the placeholder jobs of a level, or the error the clustering spec raises
\* ("OutOfBounds": tokens[0] is read from an empty vector)
createPlaceHolderJobsForLevel(level) ==
    LET tokens == Tokenize(clustering_spec)
        bad == [error |-> "InvalidSpec", jobs |-> <<>>]
    IN  IF tokens = <<>> THEN [error |-> "OutOfBounds", jobs |-> <<>>]
        ELSE IF tokens[1] = <<"h", "c">>
        THEN IF Len(tokens) # 3 THEN bad
             ELSE LET k == ScanULong(tokens[2])
                      m == ScanULong(tokens[3])
                  IN  IF (~k.ok) \/ k.val < 1 \/ (~m.ok) \/ m.val < 1 THEN bad
                      ELSE LET cjs == createHCJobs(k.val, m.val, level, level)
                           IN  [error |-> "none",
                                jobs |-> [i \in 1..Len(cjs) |->
                                    PlaceHolderJob(cjs[i].tasks, cjs[i].num_nodes, level, level)]]
        ELSE bad

\* what the scheduler may end with when createPlaceHolderJobsForLevel fails:
\* the exception thrown, and for the read of tokens[0] from an empty vector
\* (undefined behaviour) either a crash or, the garbage read not being "hc",
\* the exception of the else branch
ErrorOutcomes(error) ==
    IF error = "OutOfBounds" THEN {"SegmentationFault", "InvalidSpec"} ELSE {error}

-----------------------------------------------------------------------------
(* LevelByLevelWMS: the decision tick *)

OngoingLevel(level_number, pending) ==
    [level_number |-> level_number,
     pending_placeholder_jobs |-> pending,
     running_placeholder_jobs |-> {},
     completed_placeholder_jobs |-> {}]

\* levels whose bucket holds a pending placeholder job
PendingLevels ==
    {l \in DOMAIN ongoing_levels : ongoing_levels[l].pending_placeholder_jobs # {}}

\* the guard with the comparison of its comment ("more than 2")
TooManyOngoingLevelsStrict == Cardinality(DOMAIN ongoing_levels) > 2

\* "If more than 2 levels are going on, forget it"
TooManyOngoingLevels == Cardinality(DOMAIN ongoing_levels) >= 2

\* "Don't schedule a pilot job if overlap = false and anything is going on"
NoOverlapAndBusy == (~overlap) /\ DOMAIN ongoing_levels # {}

\* the highest ongoing level_number plus one; ULONG_MAX + 1 wraps to 0 when
\* no level is ongoing
LevelToSubmit ==
    IF DOMAIN ongoing_levels = {} THEN 0 ELSE Max(DOMAIN ongoing_levels) + 1

\* a tick that does not look at the previous level
PreviousLevelIgnored(level_to_submit) == FALSE

\* a tick that is content with one started job in the previous level
PreviousLevelNoneStarted(level_to_submit) ==
    /\ level_to_submit > 0
    /\ ongoing_levels[level_to_submit - 1].running_placeholder_jobs = {}

\* "Make sure that all PH jobs in the previous level have started"
PreviousLevelNotStarted(level_to_submit) ==
    /\ level_to_submit > 0
    /\ ongoing_levels[level_to_submit - 1].pending_placeholder_jobs # {}

LBL_submitPilotJobsForNextLevel ==
    LET level_to_submit == LevelToSubmit
    IN  IF \/ TooManyOngoingLevels
           \/ NoOverlapAndBusy
           \/ level_to_submit >= getNumLevels
           \/ PreviousLevelNotStarted(level_to_submit)
        THEN /\ last' = NoStep("tick")
             /\ pc' = "wait"
             /\ UNCHANGED <<ph, ongoing_levels, resStatus, termReq>>
        ELSE LET r == createPlaceHolderJobsForLevel(level_to_submit)
                 n == Len(ph)
                 ids == (n + 1)..(n + Len(r.jobs))
                 step == [NoStep("tick") EXCEPT
                            !.arg = level_to_submit,
                            !.work = NotCompletedOf(taskState,
                                        Range(getTasksInTopLevelRange(level_to_submit,
                                                                      level_to_submit))),
                            !.prePending = PendingLevels]
             IN  IF r.error # "none"
                 THEN /\ \E e \in ErrorOutcomes(r.error) : last' = [step EXCEPT !.error = e]
                      /\ pc' = "fatal"
                      /\ UNCHANGED <<ph, ongoing_levels, resStatus, termReq>>
                 ELSE /\ ph' = ph \o r.jobs
                      /\ resStatus' = resStatus \o [i \in 1..Len(r.jobs) |-> "queued"]
                      /\ termReq' = termReq \o [i \in 1..Len(r.jobs) |-> 0]
                      /\ ongoing_levels' =
                            [l \in DOMAIN ongoing_levels \cup {level_to_submit} |->
                                IF l \in DOMAIN ongoing_levels THEN ongoing_levels[l]
                                ELSE OngoingLevel(level_to_submit, ids)]
                      /\ last' = [step EXCEPT !.created = ids]
                      /\ pc' = "wait"

\* main(): while (not isDone()) { submitPilotJobsForNextLevel(); wait... }
LBL_Tick ==
    /\ wms = "LevelByLevel"
    /\ pc = "loop"
    /\ ~isDone
    /\ LBL_submitPilotJobsForNextLevel
    /\ UNCHANGED <<taskState, taskRes, events, expirations, cfgVars, zhangVars>>

LBL_Exit ==
    /\ wms = "LevelByLevel"
    /\ pc = "loop"
    /\ isDone
    /\ pc' = "done"
    /\ UNCHANGED <<envVars, cfgVars, zhangVars, ph, ongoing_levels, termReq, last>>

-----------------------------------------------------------------------------
(* LevelByLevelWMS: the event handlers *)

\* the running placeholder jobs of all ongoing levels
LBL_Running(ol) == UNION {ol[l].running_placeholder_jobs : l \in DOMAIN ol}

\* a reservation takes the jobs submitted to it only while it runs (a
\* submission to a reservation that is gone is refused and the task stays Ready)
Accepts(r) == resStatus[r] = "started"

\* the runtime_error a handler throws ends main()
LBL_Fatal(step, error) ==
    /\ pc' = "fatal"
    /\ last' = [step EXCEPT !.error = error]
    /\ UNCHANGED <<taskState, taskRes, resStatus, ph, ongoing_levels, termReq>>

LBL_processEventPilotJobStart(r) ==
    LET levels == {l \in DOMAIN ongoing_levels :
                        r \in ongoing_levels[l].pending_placeholder_jobs}
        step == [NoStep("start") EXCEPT !.arg = r, !.prePending = PendingLevels]
    IN  IF levels = {}
        THEN LBL_Fatal(step, "ConsistencyError")
        ELSE LET l == CHOOSE x \in levels : TRUE
                 ready == {t \in ph[r].tasks : taskState[t] = "Ready" /\ Accepts(r)}
             IN  /\ ongoing_levels' =
                        [ongoing_levels EXCEPT
                            ![l].pending_placeholder_jobs = @ \ {r},
                            ![l].running_placeholder_jobs = @ \cup {r}]
                 /\ taskState' = DispatchedState(taskState, ready)
                 /\ taskRes' = DispatchedRes(taskRes, ready, r)
                 /\ last' = [step EXCEPT !.job = r,
                                !.dispatched = {t \in ph[r].tasks : taskState[t] = "Ready"}]
                 /\ pc' = "loop"
                 /\ UNCHANGED <<resStatus, ph, termReq>>

\* a replacement that keeps the node count of the expired job
LBL_ReplacementSameNodes(old, level_number) ==
    LET tasks == {t \in old.tasks : taskState[t] # "Completed"}
    IN  PlaceHolderJob(tasks, old.pilot_num_hosts, level_number, level_number)

\* a replacement made of the tasks that are Completed
LBL_ReplacementOfCompleted(old, level_number) ==
    LET tasks == {t \in old.tasks : taskState[t] = "Completed"}
        num_nodes == MinOf(old.pilot_num_hosts, Cardinality(tasks))
    IN  PlaceHolderJob(tasks, num_nodes, level_number, level_number)

\* a replacement that inherits the expired job's count of completed tasks
LBL_ReplacementKeepingCount(old, level_number) ==
    LET tasks == {t \in old.tasks : taskState[t] # "Completed"}
        num_nodes == MinOf(old.pilot_num_hosts, Cardinality(tasks))
    IN  [PlaceHolderJob(tasks, num_nodes, level_number, level_number) EXCEPT
            !.num_completed_tasks = old.num_completed_tasks]

\* the replacement ClusteredJob of an expired placeholder job: its tasks that
\* are not Completed, on min(previous hosts, number of tasks) nodes
LBL_Replacement(old, level_number) ==
    LET tasks == {t \in old.tasks : taskState[t] # "Completed"}
        num_nodes == MinOf(old.pilot_num_hosts, Cardinality(tasks))
    IN  PlaceHolderJob(tasks, num_nodes, level_number, level_number)

\* "Check if there are unprocessed tasks"
LBL_Unprocessed(job) == Cardinality(job.tasks) # job.num_completed_tasks

LBL_processEventPilotJobExpiration(r) ==
    LET levels == {l \in DOMAIN ongoing_levels :
                        r \in ongoing_levels[l].running_placeholder_jobs}
        step == [NoStep("expire") EXCEPT !.arg = r, !.prePending = PendingLevels,
                                         !.work = NotCompletedOf(taskState, ph[r].tasks)]
    IN  IF levels = {}
        THEN LBL_Fatal(step, "ConsistencyError")
        ELSE LET l == CHOOSE x \in levels : TRUE
                 new == Len(ph) + 1
             IN  IF ~LBL_Unprocessed(ph[r])
                 THEN /\ last' = [step EXCEPT !.job = r]
                      /\ pc' = "loop"
                      /\ UNCHANGED <<taskState, taskRes, resStatus, ph, ongoing_levels,
                                     termReq>>
                 ELSE /\ ph' = Append(ph, LBL_Replacement(ph[r], ongoing_levels[l].level_number))
                      /\ resStatus' = Append(resStatus, "queued")
                      /\ termReq' = Append(termReq, 0)
                      /\ ongoing_levels' =
                            [ongoing_levels EXCEPT
                                ![l].running_placeholder_jobs = @ \ {r},
                                ![l].pending_placeholder_jobs = @ \cup {new}]
                      /\ last' = [step EXCEPT !.job = r, !.created = {new}]
                      /\ pc' = "loop"
                      /\ UNCHANGED <<taskState, taskRes>>

\* a test that closes the job at its first completed task
LBL_AnyTaskDone(job, num_completed_tasks) == num_completed_tasks >= 1

\* "Terminate the pilot job in case all its tasks are done"
LBL_AllTasksDone(job, num_completed_tasks) == num_completed_tasks = Cardinality(job.tasks)

LBL_processEventStandardJobCompletion(completed_task) ==
    LET found == {f \in (DOMAIN ongoing_levels) \X LBL_Running(ongoing_levels) :
                    /\ f[2] \in ongoing_levels[f[1]].running_placeholder_jobs
                    /\ completed_task \in ph[f[2]].tasks}
        step == [NoStep("complete") EXCEPT !.arg = completed_task,
                                           !.prePending = PendingLevels]
    IN  IF found = {}
        THEN LBL_Fatal(step, "ConsistencyError")
        ELSE \E f \in found :
             LET l == f[1]
                 j == f[2]
                 count == ph[j].num_completed_tasks + 1
                 done == LBL_AllTasksDone(ph[j], count)
                 ol1 == IF done
                        THEN [ongoing_levels EXCEPT
                                ![l].running_placeholder_jobs = @ \ {j},
                                ![l].completed_placeholder_jobs = @ \cup {j}]
                        ELSE ongoing_levels
                 \* "Start all newly ready tasks that depended on the completed
                 \*  task, IN ANY PLACEHOLDER"
                 owner(c) == CHOOSE x \in LBL_Running(ol1) : c \in ph[x].tasks
                 newly == ReadyChildrenInAnyPlaceholder(taskState, completed_task,
                                                        LBL_Running(ol1), ph)
                 taken == {c \in newly : Accepts(owner(c))}
                 \* "Remove the ongoing level if it's finished"
                 finished == /\ ol1[l].pending_placeholder_jobs = {}
                             /\ ol1[l].running_placeholder_jobs = {}
             IN  /\ ph' = [ph EXCEPT ![j].num_completed_tasks = count]
                 /\ resStatus' = IF done THEN terminateJob(resStatus, j) ELSE resStatus
                 /\ termReq' = IF done THEN [termReq EXCEPT ![j] = @ + 1] ELSE termReq
                 /\ taskState' = DispatchedState(taskState, taken)
                 /\ taskRes' = [t \in Tasks |-> IF t \in taken THEN owner(t) ELSE taskRes[t]]
                 /\ ongoing_levels' =
                        IF finished
                        THEN [x \in DOMAIN ol1 \ {l} |-> ol1[x]]
                        ELSE ol1
                 /\ last' = [step EXCEPT !.job = j,
                                !.work = NotCompletedOf(taskState, ph[j].tasks),
                                !.terminated = IF done THEN {j} ELSE {},
                                !.dispatched = newly]
                 /\ pc' = "loop"

\* a failure handler that counts the failed task as a completed one
LBL_FailureCountedAsCompletion(t) == LBL_processEventStandardJobCompletion(t)

\* "IGNORING THIS (the pilot job expiration event will handle these issues)"
LBL_processEventStandardJobFailure(t) ==
    /\ last' = [NoStep("failure") EXCEPT !.arg = t]
    /\ pc' = "loop"
    /\ UNCHANGED <<taskState, taskRes, resStatus, ph, ongoing_levels, termReq>>

\* waitForAndProcessNextEvent(): the next event of the mailbox, dispatched on
\* its kind
LBL_HandleEvent(type) ==
    /\ wms = "LevelByLevel"
    /\ pc = "wait"
    /\ events # <<>>
    /\ NextEvent.type = type
    /\ events' = Tail(events)
    /\ UNCHANGED <<expirations, cfgVars, zhangVars>>

LBL_PilotJobStart ==
    LBL_HandleEvent("PilotJobStarted") /\ LBL_processEventPilotJobStart(NextEvent.id)

LBL_PilotJobExpiration ==
    LBL_HandleEvent("PilotJobExpired") /\ LBL_processEventPilotJobExpiration(NextEvent.id)

LBL_StandardJobCompletion ==
    LBL_HandleEvent("StandardJobCompleted")
        /\ LBL_processEventStandardJobCompletion(NextEvent.id)

LBL_StandardJobFailure ==
    LBL_HandleEvent("StandardJobFailed") /\ LBL_processEventStandardJobFailure(NextEvent.id)

-----------------------------------------------------------------------------
(* The substrate's steps, as actions of a run *)

PilotJobStarts ==
    /\ \E r \in DOMAIN resStatus : Env_PilotJobStarts(r)
    /\ UNCHANGED <<cfgVars, zhangVars, pc, ph, ongoing_levels, termReq, last>>

TaskCompletes ==
    /\ \E t \in Tasks : Env_TaskCompletes(t)
    /\ UNCHANGED <<cfgVars, zhangVars, pc, ph, ongoing_levels, termReq, last>>

PilotJobExpires ==
    /\ \E r \in DOMAIN resStatus : Env_PilotJobExpires(r)
    /\ UNCHANGED <<cfgVars, zhangVars, pc, ph, ongoing_levels, termReq, last>>

-----------------------------------------------------------------------------
(* The Level-by-Level scheduler's runs *)

\* the runs of the Level-by-Level scheduler: <<workflow, overlap, clustering
\* spec>>, the specs being "hc-1-1", "hc-2-1", "hc-2-2" on the chain and
\* "hc-2-1", "hc-5-4" on the wide workflow
LBLConfigs ==
    {<<"chain", TRUE, <<"h", "c", "-", "1", "-", "1">>>>,
     <<"chain", FALSE, <<"h", "c", "-", "1", "-", "1">>>>,
     <<"chain", TRUE, <<"h", "c", "-", "2", "-", "1">>>>,
     <<"chain", FALSE, <<"h", "c", "-", "2", "-", "1">>>>,
     <<"chain", TRUE, <<"h", "c", "-", "2", "-", "2">>>>,
     <<"chain", FALSE, <<"h", "c", "-", "2", "-", "2">>>>,
     <<"wide", TRUE, <<"h", "c", "-", "2", "-", "1">>>>,
     <<"wide", FALSE, <<"h", "c", "-", "5", "-", "4">>>>}

\* the state main() starts in
InitScheduler ==
    /\ taskRes = [t \in Tasks |-> 0]
    /\ resStatus = <<>>
    /\ events = <<>>
    /\ expirations = 0
    /\ pc = "loop"
    /\ ph = <<>>
    /\ ongoing_levels = <<>>
    /\ pending_placeholder_job = 0
    /\ running_placeholder_jobs = {}
    /\ individual_mode = FALSE
    /\ parent_runtime = 0
    /\ termReq = <<>>
    /\ last = NoStep("init")

InitLBL ==
    /\ wms = "LevelByLevel"
    /\ \E c \in LBLConfigs :
        /\ workflow = c[1]
        /\ overlap = c[2]
        /\ clustering_spec = c[3]
    /\ plimit = FALSE
    /\ number_of_hosts = 4
    /\ taskState = InitialTaskState
    /\ InitScheduler

-----------------------------------------------------------------------------
(* ZhangClusteringWMS: estimates *)

\* what BatchService::getStartTimeEstimates may answer for one configuration,
\* with the simulated date of the query: a negative estimate (no estimate),
\* a map without the queried key, an estimate in the past, and estimates
\* 30 s, 50 s and 200 s ahead
StartTimeEstimates ==
    {[present |-> TRUE, estimate |-> -1, date |-> 0],
     [present |-> FALSE, estimate |-> 0, date |-> 20],
     [present |-> TRUE, estimate |-> 10, date |-> 20],
     [present |-> TRUE, estimate |-> 50, date |-> 20],
     [present |-> TRUE, estimate |-> 70, date |-> 20],
     [present |-> TRUE, estimate |-> 220, date |-> 20]}

\* estimates[config_key] of a std::map<std::string, double>: the value of the
\* key, and 0.0 (a value-initialized entry) when the key is absent
EstimateOfKey(answer) == IF answer.present THEN answer.estimate ELSE 0

\* estimateWaitTime(): throws when the estimate is negative, otherwise
\* max(0, estimate - current date)
estimateWaitTime(answer) ==
    IF EstimateOfKey(answer) < 0
    THEN [error |-> "EstimationFailure", wait |-> 0]
    ELSE [error |-> "none", wait |-> MaxOf(0, EstimateOfKey(answer) - answer.date)]

\* what a call of estimateWaitTime() may end in, over the answers of the
\* batch service
WaitTimeEstimates == {estimateWaitTime(a) : a \in StartTimeEstimates}

\* the values the uninitialized local `leeway` of groupLevels may hold
UninitializedLeeway == {0, 20}

\* maxParallelism(): the largest level of the range, capped at the host count
maxParallelism(start_level, end_level) ==
    LET sizes == {Len(getTasksInTopLevelRange(l, l)) : l \in start_level..end_level}
    IN  MinOf(IF sizes = {} THEN 0 ELSE Max(sizes), number_of_hosts)

\* WorkflowUtil::estimateMakespan over all the tasks of a level range
RangeMakespan(start_level, end_level, parallelism) ==
    estimateMakespan(Range(getTasksInTopLevelRange(start_level, end_level)), parallelism)

\* getStartLevel(): one result per iteration order of the running set
RECURSIVE StartLevelOver(_, _, _)
StartLevelOver(start_level, jobs, phs) ==
    IF jobs = {} THEN {start_level}
    ELSE UNION {StartLevelOver(1 + MaxOf(start_level, phs[j].end_level), jobs \ {j}, phs) :
                    j \in jobs}

\* the level after the last level whose tasks are all Completed
FirstStartLevel(st) ==
    LET completed == {i \in 0..(getNumLevels - 1) :
                        \A t \in Range(getTasksInTopLevelRange(i, i)) : st[t] = "Completed"}
    IN  IF completed = {} THEN 0 ELSE Max(completed) + 1

\* a start level that does not look at the running placeholder jobs
getStartLevelOfTasksOnly(st, running, phs) == {FirstStartLevel(st)}

getStartLevel(st, running, phs) == StartLevelOver(FirstStartLevel(st), running, phs)

-----------------------------------------------------------------------------
(* ZhangClusteringWMS: groupLevels *)

\* the local `leeway` after the first wait-time query of an iteration: set
\* only when the parent's runtime exceeds the wait, otherwise what it held
leewayAfter(g, w1) ==
    IF g.parent_runtime <= 0 THEN g.leeway
    ELSE IF g.parent_runtime > w1.wait THEN g.parent_runtime - w1.wait
    ELSE g.leeway

\* one iteration of the while loop of groupLevels on loop state g, for the
\* outcomes w1 (first wait-time query) and w2 (the query after leeway)
groupLevelsStep(g, w1, w2) ==
    LET max_parallelism == maxParallelism(g.start_level, g.candidate_end_level)
        partial_dag_runtime ==
            RangeMakespan(g.start_level, g.candidate_end_level, max_parallelism)
        leeway == leewayAfter(g, w1)
        peel_runtime1 == IF leeway > 0 THEN partial_dag_runtime + leeway
                         ELSE partial_dag_runtime
        peel_wait_time1 == IF leeway > 0 THEN w2.wait ELSE w1.wait
        real_runtime1 == partial_dag_runtime
        real_wait_time == IF peel_wait_time1 - g.parent_runtime < 0 THEN peel_wait_time1
                          ELSE peel_wait_time1 - g.parent_runtime
        g1 == [g EXCEPT !.leeway = leeway, !.peel_runtime1 = peel_runtime1,
                        !.peel_wait_time1 = peel_wait_time1, !.queries = @ + (IF leeway > 0 THEN 2 ELSE 1)]
    IN  IF w1.error # "none" THEN [g EXCEPT !.error = w1.error]
        ELSE IF leeway > 0 /\ w2.error # "none" THEN [g EXCEPT !.error = w2.error]
        ELSE IF g.giant /\ real_wait_time > real_runtime1
        THEN [g1 EXCEPT !.candidate_end_level = @ + 1]
        ELSE IF /\ peel_wait_time1 - g.parent_runtime > 0
                /\ \/ peel_wait_time1 * g.real_runtime0 > g.peel_wait_time0 * real_runtime1
                   \/ peel_wait_time1 * g.runtime_all > g.wait_time_all * real_runtime1
        THEN [g1 EXCEPT !.giant = FALSE, !.stopped = TRUE]
        ELSE [g1 EXCEPT !.giant = FALSE,
                        !.peel_wait_time0 = peel_wait_time1,
                        !.peel_runtime0 = peel_runtime1,
                        !.real_runtime0 = real_runtime1,
                        !.candidate_end_level = @ + 1]

\* the while loop is over: an estimate failed, the break was taken or the
\* candidate reached the end level
groupLevelsOver(g) ==
    g.error # "none" \/ g.stopped \/ ~(g.candidate_end_level < g.end_level)

\* the loop states one more iteration may lead to, one per outcome of the
\* wait-time queries (the second query is made only when leeway > 0)
groupLevelsNext(g) ==
    UNION {{groupLevelsStep(g, w1, w2) :
                w2 \in IF w1.error = "none" /\ leewayAfter(g, w1) > 0
                       THEN WaitTimeEstimates ELSE {w1}} :
            w1 \in WaitTimeEstimates}

\* the loop states groupLevels may end in, from the loop states G
RECURSIVE groupLevelsLoop(_)
groupLevelsLoop(G) ==
    LET looping == {g \in G : ~groupLevelsOver(g)}
    IN  IF looping = {} THEN G
        ELSE groupLevelsLoop((G \ looping) \cup UNION {groupLevelsNext(g) : g \in looping})

\* groupLevels(): <<wait time, run time, end level>> of the partial DAG
groupLevelsResult(g) ==
    IF g.giant
    THEN [error |-> g.error, wait_time |-> 0, makespan |-> 0, end_level |-> g.end_level,
          break_level |-> -1]
    ELSE [error |-> g.error, wait_time |-> g.peel_wait_time1, makespan |-> g.peel_runtime1,
          end_level |-> g.candidate_end_level,
          break_level |-> IF g.stopped THEN g.candidate_end_level ELSE -1]

\* the loop states groupLevels starts in: the locals before the while loop,
\* `leeway` holding whatever the stack held
groupLevelsEntry(start_level, end_level, runtime_all, wait_time_all, prt) ==
    {[start_level |-> start_level, end_level |-> end_level,
      candidate_end_level |-> start_level,
      runtime_all |-> runtime_all, wait_time_all |-> wait_time_all,
      peel_runtime0 |-> runtime_all, peel_wait_time0 |-> wait_time_all,
      real_runtime0 |-> runtime_all,
      peel_runtime1 |-> 0, peel_wait_time1 |-> 0,
      leeway |-> lw, giant |-> TRUE, stopped |-> FALSE,
      parent_runtime |-> prt, queries |-> 0, error |-> "none"] :
        lw \in UninitializedLeeway}

groupLevels(start_level, end_level, runtime_all, wait_time_all, prt) ==
    {groupLevelsResult(g) :
        g \in groupLevelsLoop(groupLevelsEntry(start_level, end_level, runtime_all,
                                               wait_time_all, prt))}

-----------------------------------------------------------------------------
(* ZhangClusteringWMS: the decision algorithm *)

\* the scheduler's and the substrate's state as one value, threaded through a
\* handler and the decision algorithm it ends with
ZhangState(step) ==
    [pending_placeholder_job |-> pending_placeholder_job,
     running_placeholder_jobs |-> running_placeholder_jobs,
     individual_mode |-> individual_mode,
     parent_runtime |-> parent_runtime,
     ph |-> ph,
     resStatus |-> resStatus,
     termReq |-> termReq,
     taskState |-> taskState,
     taskRes |-> taskRes,
     last |-> step,
     fatal |-> FALSE]

\* a singleton request for the READY tasks of the lowest level that has one
SubmitReadyTasksOfOneLevel(z) ==
    LET ready == {t \in Tasks : z.taskState[t] = "Ready"}
        first == {t \in ready : \A u \in ready : TaskLevel[t] <= TaskLevel[u]}
    IN  [z EXCEPT !.taskState = DispatchedState(z.taskState, first),
                  !.taskRes = DispatchedRes(z.taskRes, first, -1),
                  !.last.singles = @ \cup first]

\* a singleton request for every task that is READY or PENDING
SubmitReadyAndPendingTasksIndividually(z) ==
    LET ready == {t \in Tasks : z.taskState[t] \in {"Ready", "Pending"}}
    IN  [z EXCEPT !.taskState = DispatchedState(z.taskState, ready),
                  !.taskRes = DispatchedRes(z.taskRes, ready, -1),
                  !.last.singles = @ \cup ready]

\* a singleton request (-N 1, -c 1) for every task that is READY
SubmitReadyTasksIndividually(z) ==
    LET ready == {t \in Tasks : z.taskState[t] = "Ready"}
    IN  [z EXCEPT !.taskState = DispatchedState(z.taskState, ready),
                  !.taskRes = DispatchedRes(z.taskRes, ready, -1),
                  !.last.singles = @ \cup ready]

\* a placeholder job that takes every task of its levels, the Completed ones
\* included
createAndSubmitPlaceholderJobOfAllTasks(z, requested_execution_time, requested_parallelism, start_level, end_level) ==
    LET duration == EXECUTION_TIME_FUDGE_FACTOR(requested_execution_time)
        new == Len(z.ph) + 1
        job == [tasks |-> Range(getTasksInTopLevelRange(start_level, end_level)),
                num_nodes |-> requested_parallelism,
                start_level |-> start_level,
                end_level |-> end_level,
                num_completed_tasks |-> 0,
                pilot_num_hosts |-> requested_parallelism,
                pilot_cores |-> 1,
                pilot_duration |-> duration,
                arg_N |-> requested_parallelism,
                arg_c |-> 1,
                arg_t |-> WallTimeMinutes(duration)]
    IN  [z EXCEPT !.parent_runtime = duration,
                  !.ph = Append(@, job),
                  !.resStatus = Append(@, "queued"),
                  !.termReq = Append(@, 0),
                  !.pending_placeholder_job = new,
                  !.last.created = @ \cup {new}]

\* createAndSubmitPlaceholderJob()
createAndSubmitPlaceholderJob(z, requested_execution_time, requested_parallelism, start_level, end_level) ==
    LET duration == EXECUTION_TIME_FUDGE_FACTOR(requested_execution_time)
        tasks == {t \in Range(getTasksInTopLevelRange(start_level, end_level)) :
                    z.taskState[t] # "Completed"}
        new == Len(z.ph) + 1
        job == [tasks |-> tasks,
                num_nodes |-> requested_parallelism,
                start_level |-> start_level,
                end_level |-> end_level,
                num_completed_tasks |-> 0,
                pilot_num_hosts |-> requested_parallelism,
                pilot_cores |-> 1,
                pilot_duration |-> duration,
                arg_N |-> requested_parallelism,
                arg_c |-> 1,
                arg_t |-> WallTimeMinutes(duration)]
    IN  [z EXCEPT !.parent_runtime = duration,
                  !.ph = Append(@, job),
                  !.resStatus = Append(@, "queued"),
                  !.termReq = Append(@, 0),
                  !.pending_placeholder_job = new,
                  !.last.created = @ \cup {new}]

\* early returns that do not look at individual_mode
HeuristicSkippedGrouping(z) ==
    \/ z.pending_placeholder_job # 0
    \/ (~overlap) /\ z.running_placeholder_jobs # {}

\* early returns that do not look at the running set
HeuristicSkippedRunningIgnored(z) ==
    \/ z.pending_placeholder_job # 0
    \/ z.individual_mode

\* the early returns of applyGroupingHeuristic()
HeuristicSkipped(z) ==
    \/ z.pending_placeholder_job # 0
    \/ z.individual_mode
    \/ (~overlap) /\ z.running_placeholder_jobs # {}

\* applyGroupingHeuristic(): the states it may leave, one per outcome of the
\* wait-time queries, per value of the uninitialized leeway and per
\* iteration order of the running set
applyGroupingHeuristic(z) ==
    IF HeuristicSkipped(z) THEN {z}
    ELSE UNION {
        LET end_level == getNumLevels - 1
            max_parallelism == maxParallelism(start_level, end_level)
            runtime_all == RangeMakespan(start_level, end_level, max_parallelism)
            zs == [z EXCEPT !.last.start_level = start_level]
        IN  IF start_level > end_level THEN {zs}
            ELSE UNION {
                IF wall.error # "none"
                THEN {[zs EXCEPT !.fatal = TRUE, !.last.error = wall.error]}
                ELSE {LET zp == [zs EXCEPT !.last.partial_dag_end_level =
                                                partial_dag.end_level,
                                           !.last.break_level = partial_dag.break_level]
                      IN  IF partial_dag.error # "none"
                          THEN [zs EXCEPT !.fatal = TRUE, !.last.error = partial_dag.error]
                          ELSE IF partial_dag.end_level >= end_level
                          THEN SubmitReadyTasksIndividually(
                                    [zp EXCEPT !.individual_mode = TRUE])
                          ELSE createAndSubmitPlaceholderJob(zp, partial_dag.makespan,
                                    maxParallelism(start_level, partial_dag.end_level),
                                    start_level, partial_dag.end_level) :
                        partial_dag \in groupLevels(start_level, end_level, runtime_all,
                                                    wall.wait, z.parent_runtime)}
                : wall \in WaitTimeEstimates}
        : start_level \in getStartLevel(z.taskState, z.running_placeholder_jobs, z.ph)}

\* the state a handler leaves becomes the state of the run
ZhangCommit(z) ==
    /\ pending_placeholder_job' = z.pending_placeholder_job
    /\ running_placeholder_jobs' = z.running_placeholder_jobs
    /\ individual_mode' = z.individual_mode
    /\ parent_runtime' = z.parent_runtime
    /\ ph' = z.ph
    /\ resStatus' = z.resStatus
    /\ termReq' = z.termReq
    /\ taskState' = z.taskState
    /\ taskRes' = z.taskRes
    /\ last' = z.last
    /\ pc' = IF z.fatal THEN "fatal" ELSE IF pc = "loop" THEN "wait" ELSE "loop"

\* an error that is reported and then ignored: the scheduler goes on
ZhangLogged(z, error) == [z EXCEPT !.last.error = error]

ZhangFatal(z, error) == [z EXCEPT !.fatal = TRUE, !.last.error = error]

-----------------------------------------------------------------------------
(* ZhangClusteringWMS: the event handlers *)

\* submission of all the tasks ts, READY or not, to the reservation of job j
ZhangDispatchNotReadyToo(z, ts, j) ==
    LET taken == IF z.resStatus[j] = "started"
                 THEN {t \in ts : z.taskState[t] \in {"Ready", "NotReady"}} ELSE {}
    IN  [z EXCEPT !.taskState = DispatchedState(z.taskState, taken),
                  !.taskRes = DispatchedRes(z.taskRes, taken, j),
                  !.last.dispatched = @ \cup taken]

\* submission of the READY tasks among ts to the reservation of job j
ZhangDispatch(z, ts, j) ==
    LET ready == {t \in ts : z.taskState[t] = "Ready"}
        taken == IF z.resStatus[j] = "started" THEN ready ELSE {}
    IN  [z EXCEPT !.taskState = DispatchedState(z.taskState, taken),
                  !.taskRes = DispatchedRes(z.taskRes, taken, j),
                  !.last.dispatched = @ \cup ready]

Zhang_processEventPilotJobStart(r) ==
    LET z == ZhangState([NoStep("start") EXCEPT !.arg = r])
    IN  IF z.pending_placeholder_job = 0
        THEN {ZhangFatal(z, "ConsistencyError")}
        ELSE IF r # z.pending_placeholder_job
        THEN {z}    \* "Must be for a placeholder I already cancelled... nevermind"
        ELSE LET z1 == [z EXCEPT !.running_placeholder_jobs = @ \cup {r},
                                 !.pending_placeholder_job = 0,
                                 !.last.job = r]
             IN  applyGroupingHeuristic(ZhangDispatch(z1, z1.ph[r].tasks, r))

\* "Check if there are unprocessed tasks"
ZhangUnprocessed(z, j) == \E t \in z.ph[j].tasks : z.taskState[t] # "Completed"

\* "Cancel pending pilot job if any": terminateJob() outside any try block
ZhangCancelPending(z) ==
    LET p == z.pending_placeholder_job
    IN  IF p = 0 THEN z
        ELSE IF terminateJobFails(z.resStatus, p)
        THEN [ZhangFatal(z, "WorkflowExecutionException") EXCEPT
                    !.termReq[p] = @ + 1, !.last.terminated = @ \cup {p}]
        ELSE [z EXCEPT !.resStatus = terminateJob(@, p),
                       !.termReq[p] = @ + 1,
                       !.last.terminated = @ \cup {p},
                       !.pending_placeholder_job = 0]

\* a running job counts as not started as long as none of its tasks has completed
ZhangNoTaskCompleted(z, j) == \A t \in z.ph[j].tasks : z.taskState[t] # "Completed"

\* "Cancel running pilot jobs if none of their tasks has started"
ZhangNotStarted(z, j) == \A t \in z.ph[j].tasks : z.taskState[t] = "NotReady"

ZhangCancelUnstarted(z) ==
    LET to_remove == {j \in z.running_placeholder_jobs : ZhangNotStarted(z, j)}
    IN  [z EXCEPT !.resStatus = [i \in DOMAIN @ |->
                        IF i \in to_remove /\ ~terminateJobFails(@, i) THEN "terminated" ELSE @[i]],
                  !.termReq = [i \in DOMAIN @ |-> IF i \in to_remove THEN @[i] + 1 ELSE @[i]],
                  !.last.terminated = @ \cup to_remove,
                  !.running_placeholder_jobs = @ \ to_remove]

Zhang_processEventPilotJobExpiration(r) ==
    LET z == ZhangState([NoStep("expire") EXCEPT
                            !.arg = r, !.work = NotCompletedOf(taskState, ph[r].tasks),
                            !.prePending = {pending_placeholder_job} \ {0}])
    IN  IF r \notin z.running_placeholder_jobs
        THEN {ZhangFatal(z, "ConsistencyError")}
        ELSE LET z1 == [z EXCEPT !.running_placeholder_jobs = @ \ {r}, !.last.job = r]
             IN  IF ~ZhangUnprocessed(z1, r) THEN {z1}
                 ELSE LET z2 == ZhangCancelPending(z1)
                      IN  IF z2.fatal THEN {z2}
                          ELSE applyGroupingHeuristic(ZhangCancelUnstarted(z2))

\* "Terminate the pilot job in case all its tasks are done"
ZhangAllTasksDone(z, j) == \A t \in z.ph[j].tasks : z.taskState[t] = "Completed"

Zhang_processEventStandardJobCompletion(completed_task) ==
    LET z == ZhangState([NoStep("complete") EXCEPT !.arg = completed_task])
        found == {j \in z.running_placeholder_jobs : completed_task \in z.ph[j].tasks}
    IN  IF found = {} /\ ~z.individual_mode
        THEN {ZhangFatal(z, "ConsistencyError")}
        ELSE UNION {
            LET z1 == IF j # 0 /\ ZhangAllTasksDone(z, j)
                      THEN [z EXCEPT !.resStatus = terminateJob(@, j),
                                     !.termReq[j] = @ + 1,
                                     !.last.terminated = @ \cup {j},
                                     !.last.job = j,
                                     !.running_placeholder_jobs = @ \ {j}]
                      ELSE [z EXCEPT !.last.job = j,
                                     !.last.work = IF j = 0 THEN {}
                                                   ELSE NotCompletedOf(z.taskState, z.ph[j].tasks)]
                 \* "Start all newly ready tasks that depended on the completed
                 \*  task, IN ANY PLACEHOLDER"
                 owner(c) == CHOOSE x \in z1.running_placeholder_jobs : c \in z1.ph[x].tasks
                 newly == ReadyChildrenInAnyPlaceholder(z1.taskState, completed_task,
                                                        z1.running_placeholder_jobs, z1.ph)
                 taken == {c \in newly : z1.resStatus[owner(c)] = "started"}
                 z2 == [z1 EXCEPT
                            !.taskState = DispatchedState(@, taken),
                            !.taskRes = [t \in Tasks |-> IF t \in taken THEN owner(t) ELSE @[t]],
                            !.last.dispatched = @ \cup newly]
            IN  {IF z2.individual_mode THEN SubmitReadyTasksIndividually(z2) ELSE z2}
            : j \in IF found = {} THEN {0} ELSE found}

\* "IGNORING THIS"
Zhang_processEventStandardJobFailure(t) ==
    {ZhangState([NoStep("failure") EXCEPT !.arg = t])}

Zhang_HandleEvent(type) ==
    /\ wms = "Zhang"
    /\ pc = "wait"
    /\ events # <<>>
    /\ NextEvent.type = type
    /\ events' = Tail(events)
    /\ UNCHANGED <<expirations, cfgVars, ongoing_levels>>

Zhang_PilotJobStart ==
    /\ Zhang_HandleEvent("PilotJobStarted")
    /\ \E z \in Zhang_processEventPilotJobStart(NextEvent.id) : ZhangCommit(z)

Zhang_PilotJobExpiration ==
    /\ Zhang_HandleEvent("PilotJobExpired")
    /\ \E z \in Zhang_processEventPilotJobExpiration(NextEvent.id) : ZhangCommit(z)

Zhang_StandardJobCompletion ==
    /\ Zhang_HandleEvent("StandardJobCompleted")
    /\ \E z \in Zhang_processEventStandardJobCompletion(NextEvent.id) : ZhangCommit(z)

Zhang_StandardJobFailure ==
    /\ Zhang_HandleEvent("StandardJobFailed")
    /\ \E z \in Zhang_processEventStandardJobFailure(NextEvent.id) : ZhangCommit(z)

\* main(): while (not isDone()) { applyGroupingHeuristic(); wait... }
Zhang_Tick ==
    /\ wms = "Zhang"
    /\ pc = "loop"
    /\ ~isDone
    /\ \E z \in applyGroupingHeuristic(ZhangState(NoStep("tick"))) : ZhangCommit(z)
    /\ UNCHANGED <<events, expirations, cfgVars, ongoing_levels>>

Zhang_Exit ==
    /\ wms = "Zhang"
    /\ pc = "loop"
    /\ isDone
    /\ pc' = "done"
    /\ UNCHANGED <<envVars, cfgVars, zhangVars, ph, ongoing_levels, termReq, last>>

-----------------------------------------------------------------------------
(* The Dynamic Grouping scheduler's runs *)

\* the configurations of the runs: <<overlap, plimit, number of hosts>>
ZhangConfigs ==
    {<<TRUE, FALSE, 1>>, <<FALSE, TRUE, 1>>, <<TRUE, TRUE, 2>>, <<FALSE, FALSE, 2>>}

InitZhang ==
    /\ wms = "Zhang"
    /\ workflow = "chain"
    /\ clustering_spec = <<>>
    /\ \E c \in ZhangConfigs :
        /\ overlap = c[1]
        /\ plimit = c[2]
        /\ number_of_hosts = c[3]
    /\ taskState = InitialTaskState
    /\ InitScheduler

-----------------------------------------------------------------------------
(* The runs: one scheduler, one workflow, the substrate *)

Init == InitLBL \/ InitZhang

Next ==
    \/ LBL_Tick
    \/ LBL_Exit
    \/ LBL_PilotJobStart
    \/ LBL_PilotJobExpiration
    \/ LBL_StandardJobCompletion
    \/ LBL_StandardJobFailure
    \/ Zhang_Tick
    \/ Zhang_Exit
    \/ Zhang_PilotJobStart
    \/ Zhang_PilotJobExpiration
    \/ Zhang_StandardJobCompletion
    \/ Zhang_StandardJobFailure
    \/ PilotJobStarts
    \/ TaskCompletes
    \/ PilotJobExpires

Spec == Init /\ [][Next]_vars

-----------------------------------------------------------------------------
(* The runs of the Dynamic Grouping scheduler in which a reservation may *)
(* also expire before the scheduler has handled its start                *)

PilotJobExpiresEarly ==
    /\ \E r \in DOMAIN resStatus : Env_PilotJobExpiresEarly(r)
    /\ UNCHANGED <<cfgVars, zhangVars, pc, ph, ongoing_levels, termReq, last>>

InitEarly ==
    /\ InitZhang
    /\ overlap
    /\ number_of_hosts = 2

NextEarly ==
    \/ Zhang_Tick
    \/ Zhang_Exit
    \/ Zhang_PilotJobStart
    \/ Zhang_PilotJobExpiration
    \/ Zhang_StandardJobCompletion
    \/ Zhang_StandardJobFailure
    \/ PilotJobStarts
    \/ TaskCompletes
    \/ PilotJobExpires
    \/ PilotJobExpiresEarly

SpecEarly == InitEarly /\ [][NextEarly]_vars

-----------------------------------------------------------------------------
(* estimateWaitTime() on its own, one query per step *)

\* the answers of getStartTimeEstimates for the queried key: an estimate,
\* negative or not, or a map without the key
EstimateAnswers ==
    [present : {TRUE}, estimate : (0 - MaxEstimate)..MaxEstimate, date : 0..MaxDate]
        \cup [present : {FALSE}, estimate : {0}, date : 0..MaxDate]

EstimateWaitTimeCall ==
    /\ \E a \in EstimateAnswers :
            last' = [op |-> "estimateWaitTime", answer |-> a, result |-> estimateWaitTime(a)]
    /\ UNCHANGED <<envVars, cfgVars, zhangVars, pc, ph, ongoing_levels, termReq>>

InitEstimate == InitZhang

NextEstimate == EstimateWaitTimeCall

SpecEstimate == InitEstimate /\ [][NextEstimate]_vars

-----------------------------------------------------------------------------
(* The runs of the Level-by-Level scheduler on clustering specs of any shape *)

\* the clustering specs given on the command line: "hc-2-1" and, not of the
\* shape hc-k-m, "", "hc", "hc-2", "hc-2-1-1", "vc-2-1", "hc-0-1", "hc-2-0",
\* "hc-x-1", "hc--1" and "hc-2x-1"
ClusteringSpecs ==
    {<<"h", "c", "-", "2", "-", "1">>,
     <<>>,
     <<"h", "c">>,
     <<"h", "c", "-", "2">>,
     <<"h", "c", "-", "2", "-", "1", "-", "1">>,
     <<"v", "c", "-", "2", "-", "1">>,
     <<"h", "c", "-", "0", "-", "1">>,
     <<"h", "c", "-", "2", "-", "0">>,
     <<"h", "c", "-", "x", "-", "1">>,
     <<"h", "c", "-", "-", "1">>,
     <<"h", "c", "-", "2", "x", "-", "1">>}

InitAnySpec ==
    /\ wms = "LevelByLevel"
    /\ workflow = "chain"
    /\ overlap = TRUE
    /\ clustering_spec \in ClusteringSpecs
    /\ plimit = FALSE
    /\ number_of_hosts = 4
    /\ taskState = InitialTaskState
    /\ InitScheduler

NextAnySpec ==
    \/ LBL_Tick
    \/ LBL_Exit
    \/ LBL_PilotJobStart
    \/ LBL_PilotJobExpiration
    \/ LBL_StandardJobCompletion
    \/ LBL_StandardJobFailure
    \/ PilotJobStarts
    \/ TaskCompletes
    \/ PilotJobExpires

SpecAnySpec == InitAnySpec /\ [][NextAnySpec]_vars

-----------------------------------------------------------------------------
(* groupLevels() on its own: the level-peeling search, one iteration at a   *)
(* time, over the values its inputs can take                                *)

\* the values of parent_runtime: 0.0 before the first placeholder job, then
\* the fudged duration of the last placeholder job requested
ParentRuntimes ==
    {0} \cup {EXECUTION_TIME_FUDGE_FACTOR(RangeMakespan(lo, hi, maxParallelism(lo, hi))) :
                lo \in 0..(getNumLevels - 1), hi \in 0..(getNumLevels - 1)}

\* applyGroupingHeuristic() calls groupLevels() for the levels from a start
\* level to the last one, with the makespan and the wait time of the whole
GroupLevelsCall ==
    /\ last.op = "init"
    /\ \E start_level \in 0..(getNumLevels - 1), wall \in WaitTimeEstimates,
          prt \in ParentRuntimes :
          LET end_level == getNumLevels - 1
              runtime_all == RangeMakespan(start_level, end_level,
                                           maxParallelism(start_level, end_level))
          IN  /\ wall.error = "none"
              /\ \E g \in groupLevelsEntry(start_level, end_level, runtime_all,
                                           wall.wait, prt) :
                    last' = [op |-> "groupLevels", before |-> g, w1 |-> wall, after |-> g]
    /\ UNCHANGED <<envVars, cfgVars, zhangVars, pc, ph, ongoing_levels, termReq>>

\* one iteration of the while loop, for one outcome of its wait-time queries
GroupLevelsIteration ==
    /\ last.op \in {"groupLevels", "groupLevelsStep"}
    /\ ~groupLevelsOver(last.after)
    /\ \E w1 \in WaitTimeEstimates :
          \E w2 \in IF w1.error = "none" /\ leewayAfter(last.after, w1) > 0
                    THEN WaitTimeEstimates ELSE {w1} :
              last' = [op |-> "groupLevelsStep", before |-> last.after, w1 |-> w1,
                       after |-> groupLevelsStep(last.after, w1, w2)]
    /\ UNCHANGED <<envVars, cfgVars, zhangVars, pc, ph, ongoing_levels, termReq>>

InitLeeway == InitZhang

NextLeeway == GroupLevelsCall \/ GroupLevelsIteration

SpecLeeway == InitLeeway /\ [][NextLeeway]_vars

-----------------------------------------------------------------------------
(* The Level-by-Level scheduler on a workflow of several levels, when no    *)
(* reservation expires: every requested reservation eventually starts,      *)
(* every dispatched task eventually completes, the scheduler takes its      *)
(* steps and every event in the mailbox is eventually delivered             *)

InitFair ==
    /\ wms = "LevelByLevel"
    /\ workflow = "chain"
    /\ \E c \in LBLConfigs :
        /\ c[1] = "chain"
        /\ overlap = c[2]
        /\ clustering_spec = c[3]
    /\ plimit = FALSE
    /\ number_of_hosts = 4
    /\ taskState = InitialTaskState
    /\ InitScheduler

NextFair ==
    \/ LBL_Tick
    \/ LBL_Exit
    \/ LBL_PilotJobStart
    \/ LBL_StandardJobCompletion
    \/ PilotJobStarts
    \/ TaskCompletes

\* ENABLED <<LBL_Tick>>_vars: at the top of the loop with the workflow not
\* done, submitPilotJobsForNextLevel() always returns or throws
LBL_TickEnabled == wms = "LevelByLevel" /\ pc = "loop" /\ ~isDone

\* weak fairness of every step (that of the tick with its enabling condition
\* spelled out)
Fairness ==
    /\ []<>(~LBL_TickEnabled) \/ []<><<LBL_Tick>>_vars
    /\ WF_vars(LBL_Exit)
    /\ WF_vars(LBL_PilotJobStart)
    /\ WF_vars(LBL_StandardJobCompletion)
    /\ WF_vars(PilotJobStarts)
    /\ WF_vars(TaskCompletes)

SpecFair == InitFair /\ [][NextFair]_vars /\ Fairness

-----------------------------------------------------------------------------
(* The Dynamic Grouping scheduler under fair delivery: the scheduler takes  *)
(* its steps, every event in the mailbox is delivered, every queued         *)
(* reservation eventually starts, every task running in a reservation or    *)
(* as a singleton eventually completes unless its reservation expires, and  *)
(* finitely many reservations expire                                        *)

\* a step of main(): the decision tick, the exit, or the handling of the next
\* event
ZhangStep ==
    \/ Zhang_Tick
    \/ Zhang_Exit
    \/ Zhang_PilotJobStart
    \/ Zhang_PilotJobExpiration
    \/ Zhang_StandardJobCompletion
    \/ Zhang_StandardJobFailure

\* ENABLED <<ZhangStep>>_vars: main() is at the top of its loop, or waits with
\* an event in the mailbox (every handler returns or throws)
ZhangStepEnabled == wms = "Zhang" /\ (pc = "loop" \/ (pc = "wait" /\ events # <<>>))

InitFairZhang == InitZhang

NextFairZhang ==
    \/ Zhang_Tick
    \/ Zhang_Exit
    \/ Zhang_PilotJobStart
    \/ Zhang_PilotJobExpiration
    \/ Zhang_StandardJobCompletion
    \/ Zhang_StandardJobFailure
    \/ PilotJobStarts
    \/ TaskCompletes
    \/ PilotJobExpires

\* weak fairness of the scheduler's steps, of the start of queued reservations
\* and of the completion of running tasks (the first and the last with their
\* enabling conditions spelled out); expirations are not forced, and are
\* bounded
\* ENABLED <<TaskCompletes>>_vars: a task runs as a singleton or in a
\* reservation that is up (and the mailbox of the model has room)
TaskCompletesEnabled ==
    /\ Len(events) < MaxQueue
    /\ \E t \in Tasks :
          /\ taskState[t] = "Pending"
          /\ taskRes[t] = -1 \/ (taskRes[t] \in DOMAIN resStatus
                                    /\ resStatus[taskRes[t]] = "started")

FairnessZhang ==
    /\ []<>(~ZhangStepEnabled) \/ []<><<ZhangStep>>_vars
    /\ WF_vars(PilotJobStarts)
    /\ []<>(~TaskCompletesEnabled) \/ []<><<TaskCompletes>>_vars

SpecFairZhang == InitFairZhang /\ [][NextFairZhang]_vars /\ FairnessZhang

-----------------------------------------------------------------------------
(* The Dynamic Grouping scheduler on the four-level workflow *)

InitDeep ==
    /\ wms = "Zhang"
    /\ workflow = "deep"
    /\ clustering_spec = <<>>
    /\ \E c \in ZhangConfigs :
        /\ overlap = c[1]
        /\ plimit = c[2]
        /\ number_of_hosts = c[3]
    /\ taskState = InitialTaskState
    /\ InitScheduler

NextDeep ==
    \/ Zhang_Tick
    \/ Zhang_Exit
    \/ Zhang_PilotJobStart
    \/ Zhang_PilotJobExpiration
    \/ Zhang_StandardJobCompletion
    \/ Zhang_StandardJobFailure
    \/ PilotJobStarts
    \/ TaskCompletes
    \/ PilotJobExpires

SpecDeep == InitDeep /\ [][NextDeep]_vars

-----------------------------------------------------------------------------
(* Properties of the Level-by-Level scheduler *)

\* C1: Level-by-Level scheduler, bounded concurrency: in every reachable
\* state at most 2 Level Buckets exist in ongoing_levels, and when
\* overlap = false at most 1 exists.
C1_BoundedConcurrency ==
    wms = "LevelByLevel" =>
        /\ Cardinality(DOMAIN ongoing_levels) <= 2
        /\ (~overlap) => Cardinality(DOMAIN ongoing_levels) <= 1

\* a tick has just opened a second bucket next to one that is still ongoing
C1_TwoBuckets ==
    /\ wms = "LevelByLevel"
    /\ overlap
    /\ last.op = "tick"
    /\ last.created # {}
    /\ Cardinality(DOMAIN ongoing_levels) = 2

\* C2 as stated: at no point in a run, resubmissions by the expiration
\* handler included, is a placeholder job of level L+1 created while the
\* bucket of level L holds a Pending placeholder job.
C2_NoCreationWhilePreviousPending ==
    wms = "LevelByLevel" =>
        \A j \in last.created :
            ph[j].start_level > 0 => (ph[j].start_level - 1) \notin last.prePending

\* C2, amended: a decision tick never creates a placeholder job of level L+1
\* while the bucket of level L holds a Pending placeholder job.
C2_TickWaitsForPreviousLevel ==
    (wms = "LevelByLevel" /\ last.op = "tick") =>
        \A j \in last.created :
            ph[j].start_level > 0 => (ph[j].start_level - 1) \notin last.prePending

\* a tick has created the jobs of a level whose previous level is still
\* ongoing (all of its jobs running)
C2_TickNextToOngoingLevel ==
    /\ wms = "LevelByLevel"
    /\ last.op = "tick"
    /\ last.created # {}
    /\ last.arg > 0
    /\ (last.arg - 1) \in DOMAIN ongoing_levels
    /\ ongoing_levels[last.arg - 1].running_placeholder_jobs # {}

\* C3: resubmission conserves work (Level-by-Level): when the reservation of
\* a Running placeholder job expires with unfinished tasks, the old job leaves
\* the running set of its level and exactly one new Pending placeholder job is
\* created in the same level, whose tasks are exactly the old job's
\* not-Completed tasks and whose node count is min(previous node count,
\* number of remaining tasks).
C3_ResubmissionConservesWork ==
    (wms = "LevelByLevel" /\ last.op = "expire" /\ last.error = "none" /\ last.work # {}) =>
        /\ last.job \notin LBL_Running(ongoing_levels)
        /\ \E n \in DOMAIN ph :
            /\ last.created = {n}
            /\ n # last.job
            /\ ph[n].start_level = ph[last.job].start_level
            /\ ph[n].start_level \in DOMAIN ongoing_levels
            /\ n \in ongoing_levels[ph[n].start_level].pending_placeholder_jobs
            /\ ph[n].tasks = last.work
            /\ ph[n].num_nodes = MinOf(ph[last.job].num_nodes, Cardinality(last.work))
            /\ ph[n].arg_N = ph[n].num_nodes

\* a job of 5 tasks on 4 nodes has expired with 2 tasks Completed: its
\* replacement holds 3 tasks on 3 nodes
C3_ThreeLeftOnThreeNodes ==
    /\ wms = "LevelByLevel"
    /\ last.op = "expire"
    /\ last.job \in DOMAIN ph
    /\ Cardinality(ph[last.job].tasks) = 5
    /\ ph[last.job].num_nodes = 4
    /\ Cardinality(last.work) = 3
    /\ \E n \in last.created : Cardinality(ph[n].tasks) = 3 /\ ph[n].num_nodes = 3

-----------------------------------------------------------------------------
(* Properties of the Dynamic Grouping scheduler and of both schedulers *)

\* the Running placeholder jobs of the scheduler of the run
RunningJobs ==
    IF wms = "LevelByLevel" THEN LBL_Running(ongoing_levels) ELSE running_placeholder_jobs

\* the Pending placeholder jobs of the scheduler of the run
PendingJobs ==
    IF wms = "LevelByLevel"
    THEN UNION {ongoing_levels[l].pending_placeholder_jobs : l \in DOMAIN ongoing_levels}
    ELSE {pending_placeholder_job} \ {0}

\* a completion event of a task of job j is still in the mailbox
CompletionInFlight(j) ==
    \E i \in DOMAIN events :
        events[i].type = "StandardJobCompleted" /\ events[i].id \in ph[j].tasks

\* C4 as stated: Dynamic Grouping, resubmission: when the reservation of a
\* Running placeholder job expires with not-Completed tasks, then on return
\* from the expiration handler every not-Completed task of the expired job
\* belongs to a newly created Pending placeholder job.
C4_LeftoversReclustered ==
    (wms = "Zhang" /\ last.op = "expire" /\ last.error = "none" /\ last.work # {}) =>
        \E n \in last.created :
            /\ n = pending_placeholder_job
            /\ last.work \subseteq ph[n].tasks

\* C5: completion closes groups (both schedulers): when the completion event
\* that makes every task of a Running placeholder job Completed is handled,
\* the job leaves the running set and termination of its reservation is
\* requested, exactly once over the whole run; a completion event requests no
\* termination for a job that still has unfinished tasks.
C5_CompletionClosesGroups ==
    /\ \A j \in DOMAIN ph : termReq[j] <= 1
    /\ (last.op = "complete" /\ last.error = "none" /\ last.job # 0) =>
        /\ last.terminated \subseteq {last.job}
        /\ last.terminated # {} =>
            /\ last.work = {}
            /\ last.job \notin RunningJobs
            /\ termReq[last.job] = 1
        /\ (last.work = {} /\ ~CompletionInFlight(last.job)) =>
            /\ last.terminated = {last.job}
            /\ last.job \notin RunningJobs

\* the last completion event of a job of two tasks or more has been handled
C5_GroupClosed ==
    /\ last.op = "complete"
    /\ last.job \in DOMAIN ph
    /\ Cardinality(ph[last.job].tasks) >= 2
    /\ ph[last.job].tasks \subseteq CompletedNow
    /\ ~CompletionInFlight(last.job)
    /\ last.terminated = {last.job}

\* C6: individual-mode permanence (Dynamic Grouping): once individual_mode is
\* true it is never reset, and from then on no decision tick and no event
\* handler creates a placeholder job or leaves one pending: only singleton
\* requests are submitted.
C6_IndividualModePermanent ==
    [][individual_mode =>
            /\ individual_mode'
            /\ Len(ph') = Len(ph)
            /\ pending_placeholder_job' = 0
            /\ last'.created = {}]_vars

\* in individual mode, a completion has made a task Ready and the handler has
\* submitted it as a singleton request
C6_SingletonAfterCompletion ==
    /\ wms = "Zhang"
    /\ individual_mode
    /\ last.op = "complete"
    /\ last.singles # {}

\* what the clustering policy string "hc-k-m" of the run asks for:
\* <<tasks per group, nodes per group>>
PolicyOfRun ==
    CASE clustering_spec = <<"h", "c", "-", "1", "-", "1">> -> <<1, 1>>
      [] clustering_spec = <<"h", "c", "-", "2", "-", "1">> -> <<2, 1>>
      [] clustering_spec = <<"h", "c", "-", "2", "-", "2">> -> <<2, 2>>
      [] clustering_spec = <<"h", "c", "-", "5", "-", "4">> -> <<5, 4>>

LiveJobs == PendingJobs \cup RunningJobs

\* C8: in both schedulers, in every reachable state no task belongs to more
\* than one live (Pending or Running) placeholder job.
C8_NoTaskInTwoLiveJobs ==
    \A a, b \in LiveJobs : a # b => ph[a].tasks \cap ph[b].tasks = {}

\* after the resubmission of an expired job, two live jobs or more
C8_LiveJobsAfterResubmission ==
    /\ last.op = "expire"
    /\ last.created # {}
    /\ Cardinality(LiveJobs) >= 2

\* C9: every TaskGroup bound to a placeholder job (initial level submission,
\* range submission of the Dynamic Grouping scheduler, expiration
\* resubmission) is non-empty and is requested with at least 1 node.
C9_GroupsNonEmpty ==
    \A j \in DOMAIN ph :
        /\ ph[j].tasks # {}
        /\ ph[j].num_nodes >= 1
        /\ ph[j].pilot_num_hosts >= 1
        /\ ph[j].arg_N >= 1

\* a resubmission whose node count shrank to the number of remaining tasks
C9_ShrunkResubmission ==
    /\ wms = "LevelByLevel"
    /\ last.op = "expire"
    /\ \E n \in last.created :
        /\ ph[n].num_nodes < ph[last.job].num_nodes
        /\ ph[n].num_nodes = Cardinality(ph[n].tasks)

\* C10 as stated: in both schedulers, an expiration event for a reservation
\* whose group's tasks are all Completed is a no-op for the scheduling state
\* and never a fatal error.
C10_ExpirationOfCompletedGroupIsNoOp ==
    (last.op = "expire" /\ last.work = {}) =>
        /\ last.error = "none"
        /\ last.created = {}
        /\ last.terminated = {}
        /\ last.dispatched = {}
        /\ last.singles = {}

-----------------------------------------------------------------------------
(* Error handling *)

\* C11 as stated: every reservation-termination request of either scheduler
\* swallows a termination failure: when the call fails because the
\* reservation is already gone, the handler continues and the scheduler does
\* not abort.
C11_TerminationFailureSwallowed ==
    last.error # "WorkflowExecutionException"

\* the scheduler takes a task-failure event from the mailbox
FailureEventHandled ==
    /\ pc = "wait"
    /\ events # <<>>
    /\ NextEvent.type = "StandardJobFailed"
    /\ events' = Tail(events)

\* C12: handling a task-failure event, in either scheduler, leaves the level
\* buckets, the placeholder jobs with their status and completed counts, the
\* pending and running sets and individual_mode unchanged, and submits or
\* terminates nothing.
C12_FailureEventsIgnored ==
    [][FailureEventHandled =>
          /\ UNCHANGED <<ph, ongoing_levels, pending_placeholder_job,
                         running_placeholder_jobs, individual_mode, parent_runtime,
                         termReq, resStatus, taskState, taskRes>>
          /\ last'.op = "failure"
          /\ last'.created = {} /\ last'.terminated = {}
          /\ last'.dispatched = {} /\ last'.singles = {}
          /\ last'.error = "none"
          /\ pc' = "loop"]_vars

\* a failure event was ignored while a resubmitted job is pending
C12_FailureIgnoredNextToPendingJob ==
    /\ last.op = "failure"
    /\ taskState[last.arg] = "Ready"
    /\ PendingJobs # {}

\* the levels with more tasks than the batch service has nodes
LevelsOverNodeCount ==
    {l \in 0..(getNumLevels - 1) : Len(getTasksInTopLevelRange(l, l)) > number_of_hosts}

\* C13 as stated: when plimit is set and some level of the range a decision
\* pass considers has more tasks than the batch service has nodes, the pass
\* fails with a fatal AdmissionError and submits nothing (a pass that a failed
\* wait-time estimate has already aborted aside).
C13_StrictLimitAdmission ==
    (/\ wms = "Zhang"
     /\ plimit
     /\ last.start_level >= 0
     /\ last.error # "EstimationFailure"
     /\ (last.start_level..(getNumLevels - 1)) \cap LevelsOverNodeCount # {})
        => /\ last.error = "AdmissionError"
           /\ last.created = {}
           /\ last.singles = {}

\* C14 as stated: if the Reservation Service's answer for the queried key is
\* negative or the key is absent from the returned map, estimateWaitTime raises
\* a fatal EstimationFailure and yields no wait time; otherwise it returns
\* max(0, estimate - current time).
C14_EstimationFailure ==
    last.op = "estimateWaitTime" =>
        IF (~last.answer.present) \/ last.answer.estimate < 0
        THEN last.result.error = "EstimationFailure"
        ELSE last.result = [error |-> "none",
                            wait |-> MaxOf(0, last.answer.estimate - last.answer.date)]

\* a token that is a decimal integer >= 1
IsPositiveInteger(token) ==
    /\ Len(token) >= 1
    /\ \A i \in 1..Len(token) : IsDigit(token[i])
    /\ ScanULong(token).val >= 1

\* the clustering policy spec of the run is not of the shape hc-k-m
MalformedSpec ==
    LET tokens == Tokenize(clustering_spec)
    IN  \/ Len(tokens) # 3
        \/ tokens[1] # <<"h", "c">>
        \/ ~IsPositiveInteger(tokens[2])
        \/ ~IsPositiveInteger(tokens[3])

\* C15 as stated: a malformed clustering policy spec (first token not hc, token
\* count other than 3, or a tasks-per-cluster / nodes-per-cluster token that is
\* not an integer >= 1) makes the first level-submission attempt fail with an
\* error, and then no reservation has been submitted and no Level Bucket
\* registered.
C15_MalformedSpecFails ==
    (wms = "LevelByLevel" /\ MalformedSpec /\ last.op # "init") =>
        /\ last.op = "tick"
        /\ last.error # "none"
        /\ pc = "fatal"
        /\ ph = <<>>
        /\ resStatus = <<>>
        /\ DOMAIN ongoing_levels = {}

-----------------------------------------------------------------------------
(* Requests to the batch service *)

\* ceil(1 + durationSeconds / 60) for a whole number of seconds
CeilWallTimeMinutes(durationSeconds) == 1 + ((durationSeconds + 59) \div 60)

\* C16 as stated: for every reservation submitted by either scheduler the
\* wall-time argument in minutes equals ceil(1 + durationSeconds/60), where
\* durationSeconds is the fudge-factored requested duration.
C16_WallTimeIsCeiling ==
    \A j \in DOMAIN ph : ph[j].arg_t = CeilWallTimeMinutes(ph[j].pilot_duration)

-----------------------------------------------------------------------------
(* The decision algorithm of the Dynamic Grouping scheduler *)

\* the placeholder jobs whose reservation waits in the batch queue
QueuedJobs == {j \in DOMAIN ph : resStatus[j] = "queued"}

\* C17: a decision pass of the Dynamic Grouping scheduler creates a placeholder
\* job only if no pending job exists, individual_mode is false and overlap is
\* set or nothing is running: the job created is the one pending job, no other
\* reservation waits in the queue, and without overlap the pending and running
\* placeholder jobs are never more than one.
C17_DecisionGuard ==
    wms = "Zhang" =>
        /\ last.created # {} =>
                /\ last.created = {pending_placeholder_job}
                /\ ~individual_mode
                /\ overlap \/ running_placeholder_jobs = {}
        /\ QueuedJobs \subseteq PendingJobs
        /\ Cardinality(PendingJobs) <= 1
        /\ (~overlap) => Cardinality(PendingJobs \cup RunningJobs) <= 1

\* without overlap, a second placeholder job is created once nothing is running
C17_NextJobOnceNothingRuns ==
    /\ wms = "Zhang"
    /\ ~overlap
    /\ last.created # {}
    /\ Len(ph) >= 2
    /\ running_placeholder_jobs = {}

\* the first (lowest) level that is not fully Completed, the number of levels
\* when every level is
FirstIncompleteLevel ==
    LET incomplete == {i \in 0..(getNumLevels - 1) :
                        \E t \in Range(getTasksInTopLevelRange(i, i)) :
                            taskState[t] # "Completed"}
    IN  IF incomplete = {} THEN getNumLevels
        ELSE CHOOSE i \in incomplete : \A k \in incomplete : i <= k

\* the first level not fully Completed, advanced past the end level of every
\* running job
StartLevelOfSpec ==
    LET ends == {ph[j].end_level : j \in running_placeholder_jobs}
    IN  IF ends = {} THEN FirstIncompleteLevel
        ELSE MaxOf(FirstIncompleteLevel, 1 + Max(ends))

\* C18 as stated: the start level of a decision pass is exactly
\* max(first not-fully-completed level, 1 + largest end_level among the running
\* jobs), for any number of running jobs and any iteration order.
C18_StartLevel ==
    [][(wms = "Zhang" /\ pc' # pc /\ last'.start_level >= 0)
            => last'.start_level = StartLevelOfSpec']_vars

\* C19 as stated: once the search is past the giant phase, when at candidate
\* end level c the ratio wait/runtime exceeds the ratio of the candidate one
\* step back or the whole-remainder ratio, the search stops and the accepted
\* range ends at the previous candidate c-1, not at c (stated for the stops at
\* a candidate above the start level, where a previous candidate exists).
C19_StopAcceptsPreviousCandidate ==
    (wms = "Zhang" /\ last.start_level >= 0 /\ last.break_level > last.start_level) =>
        /\ last.partial_dag_end_level = last.break_level - 1
        /\ \A j \in last.created : ph[j].end_level = last.break_level - 1

\* what a decision pass that ran the level-peeling search leaves: individual
\* mode and no placeholder job when the returned end level reaches the last
\* level, otherwise one Pending placeholder job over the levels from the start
\* level to the returned end level, with their tasks that are not Completed
DecisionOutcome ==
    IF last.partial_dag_end_level >= getNumLevels - 1
    THEN /\ individual_mode
         /\ last.created = {}
    ELSE /\ ~individual_mode
         /\ Cardinality(last.created) = 1
         /\ last.created = {pending_placeholder_job}
         /\ LET job == ph[pending_placeholder_job]
            IN  /\ job.start_level = last.start_level
                /\ job.end_level = last.partial_dag_end_level
                /\ job.tasks = NotCompletedOf(taskState,
                        Range(getTasksInTopLevelRange(last.start_level,
                                                      last.partial_dag_end_level)))

\* C20: a decision pass of the Dynamic Grouping scheduler that is not skipped
\* and has start_level <= last level sets individual_mode and creates no
\* placeholder job if the search returns an end level >= last level; otherwise
\* it creates exactly one Pending placeholder job covering [start_level,
\* returned end level] with the not-Completed tasks of those levels.
C20_DecisionOutcome ==
    [][(/\ wms = "Zhang"
        /\ pc' # pc
        /\ last'.start_level >= 0
        /\ last'.start_level <= getNumLevels - 1
        /\ last'.error = "none") => DecisionOutcome']_vars

\* a pass after an expiration groups what is left of a level: the new
\* placeholder job leaves out a Completed task of its levels
C20_GroupOfLeftovers ==
    /\ wms = "Zhang"
    /\ last.start_level >= 0
    /\ last.created = {pending_placeholder_job}
    /\ \E t \in Range(getTasksInTopLevelRange(last.start_level, last.partial_dag_end_level)) :
            t \notin ph[pending_placeholder_job].tasks

-----------------------------------------------------------------------------
(* Individual mode and the event handlers *)

\* C21: at the step that enters individual_mode and at every later handling of
\* a task completion, every task of the whole graph that is Ready is submitted
\* as its own singleton request, unless the step has just dispatched it to a
\* running reservation; no Ready task is left after such a step.
C21_IndividualSubmission ==
    [][(/\ wms = "Zhang"
        /\ pc' # pc
        /\ pc' # "done"
        /\ individual_mode'
        /\ last'.error = "none"
        /\ (~individual_mode) \/ last'.op = "complete")
            => /\ \A t \in Tasks : taskState'[t] # "Ready"
               /\ \A t \in Tasks : taskState[t] = "Ready" =>
                        \/ t \in last'.singles /\ taskRes'[t] = -1
                        \/ t \in last'.dispatched /\ taskRes'[t] \in running_placeholder_jobs'
               /\ \A t \in last'.singles : taskState[t] = "Ready"]_vars

\* in individual mode, a completion was handled and a task of a later level
\* went out as a singleton request
C21_SingletonOfLaterLevel ==
    /\ wms = "Zhang"
    /\ individual_mode
    /\ last.op = "complete"
    /\ \E t \in last.singles : TaskLevel[t] > 0

\* the level buckets of the Level-by-Level scheduler that hold job j as pending
\* before, and as running after, the step
SameBucketStarted(j) ==
    \E l \in DOMAIN ongoing_levels :
        /\ j \in ongoing_levels[l].pending_placeholder_jobs
        /\ l \in DOMAIN ongoing_levels'
        /\ j \in ongoing_levels'[l].running_placeholder_jobs

\* C22: when either scheduler handles the start of the reservation of a Pending
\* placeholder job, the job moves from pending to running (in the same level
\* bucket in Level-by-Level), every task of its group that is Ready is
\* dispatched to that reservation, its tasks that are not Ready are not
\* dispatched, and no other placeholder job changes status.
C22_StartTransition ==
    [][(pc' # pc /\ pc' # "done" /\ last'.op = "start" /\ last'.job # 0) =>
          LET r == last'.job
              ready == {t \in ph[r].tasks : taskState[t] = "Ready"}
          IN  /\ r = last'.arg
              /\ r \in PendingJobs
              /\ r \in RunningJobs' /\ r \notin PendingJobs'
              /\ wms = "LevelByLevel" => SameBucketStarted(r)
              /\ last'.dispatched = ready
              /\ \A t \in ready : taskState'[t] = "Pending" /\ taskRes'[t] = r
              /\ \A t \in ph[r].tasks \ ready :
                    taskState'[t] = taskState[t] /\ taskRes'[t] = taskRes[t]
              /\ RunningJobs' = RunningJobs \cup {r}
              /\ PendingJobs' \cap DOMAIN ph = PendingJobs \ {r}
              /\ \A j \in DOMAIN ph : resStatus'[j] = resStatus[j] /\ ph'[j] = ph[j]]_vars

\* a reservation started whose group holds Ready tasks, dispatched, and a task
\* that is not Ready, left alone
C22_StartedWithTaskNotReady ==
    /\ last.op = "start"
    /\ last.job \in DOMAIN ph
    /\ last.dispatched # {}
    /\ \E t \in ph[last.job].tasks : taskState[t] = "NotReady"

\* C23: when the Dynamic Grouping scheduler handles the expiration of a
\* placeholder job that has tasks left, the previously pending job (if any) has
\* had termination requested and is no longer the pending job, every other
\* running job all of whose tasks are still NotReady has had termination
\* requested and is out of the running set, and every other running job with a
\* task that has left NotReady is kept running, untouched.
C23_CancellationOnExpiration ==
    [][(/\ wms = "Zhang"
        /\ pc' # pc /\ pc' # "done"
        /\ last'.op = "expire"
        /\ last'.job # 0
        /\ last'.work # {}
        /\ last'.error # "WorkflowExecutionException") =>
          LET p == pending_placeholder_job
              others == running_placeholder_jobs \ {last'.job}
              unstarted == {j \in others : \A t \in ph[j].tasks : taskState[t] = "NotReady"}
          IN  /\ p # 0 => /\ p \in last'.terminated
                          /\ termReq'[p] = termReq[p] + 1
                          /\ resStatus'[p] \notin {"queued", "started"}
                          /\ pending_placeholder_job' # p
              /\ \A j \in unstarted : /\ j \in last'.terminated
                                      /\ termReq'[j] = termReq[j] + 1
                                      /\ resStatus'[j] \notin {"queued", "started"}
                                      /\ j \notin running_placeholder_jobs'
              /\ \A j \in others \ unstarted : /\ j \in running_placeholder_jobs'
                                               /\ j \notin last'.terminated
                                               /\ resStatus'[j] = resStatus[j]
              /\ last'.terminated = ({p} \ {0}) \cup unstarted]_vars

\* an expiration with tasks left cancelled a running job that had not started
\* any task
C23_UnstartedRunningJobCancelled ==
    /\ wms = "Zhang"
    /\ last.op = "expire"
    /\ last.work # {}
    /\ last.terminated \ last.prePending # {}

\* C24: when either scheduler has handled the completion of a task, every
\* child of that task that is Ready and held by a placeholder job of the running
\* set has been submitted to the reservation of the job that holds it (and runs
\* there whenever that reservation is still up), whichever job the completed
\* task itself belonged to; nothing else is submitted to a reservation.
C24_DependentsDispatchedAnywhere ==
    [][(/\ pc' # pc /\ pc' # "done"
        /\ last'.op = "complete"
        /\ last'.error = "none") =>
          LET children == {c \in Tasks : last'.arg \in TaskParents[c]}
              held == {c \in children : /\ taskState[c] = "Ready"
                                        /\ \E x \in RunningJobs' : c \in ph[x].tasks}
          IN  /\ last'.dispatched = held
              /\ \A c \in held : \A x \in RunningJobs' :
                    (c \in ph[x].tasks /\ resStatus[x] = "started") =>
                        taskState'[c] = "Pending" /\ taskRes'[c] = x
              /\ \A c \in Tasks \ last'.singles :
                    taskRes'[c] # taskRes[c] => c \in held]_vars

\* a completion made a task of another running placeholder job start
C24_DispatchedIntoAnotherJob ==
    /\ last.op = "complete"
    /\ \E c \in last.dispatched :
          /\ taskState[c] = "Pending"
          /\ taskRes[c] \in RunningJobs
          /\ last.arg \notin ph[taskRes[c]].tasks

(***************************************************************************)
(* Level-by-Level: start order and level buckets                           *)
(***************************************************************************)

C26_NoEmptyBucket ==
    (wms = "LevelByLevel" /\ pc = "wait") =>
        \A l \in DOMAIN ongoing_levels :
            \/ ongoing_levels[l].pending_placeholder_jobs # {}
            \/ ongoing_levels[l].running_placeholder_jobs # {}

\* C27 as stated: an event that references a reservation or task the scheduler
\* cannot locate is a fatal ConsistencyError, never silently ignored, for both
\* schedulers: a ReservationStarted event matching no Pending job, a
\* ReservationExpired event matching no Running job, a TaskCompleted event for a
\* task held by no Running job (a task the Dynamic Grouping scheduler submitted
\* individually, which never belongs to a placeholder job, is left aside).
C27_UnlocatedEventIsFatal ==
    (/\ last.op \in {"start", "expire", "complete"}
     /\ last.job = 0
     /\ (last.op = "complete" => taskRes[last.arg] # -1)) =>
        /\ last.error = "ConsistencyError"
        /\ pc = "fatal"

\* C27, amended: the Level-by-Level scheduler stops with a ConsistencyError on
\* a ReservationStarted event matching no Pending job, a ReservationExpired
\* event matching no Running job and a TaskCompleted event for a task held by no
\* Running job.  The Dynamic Grouping scheduler stops with a ConsistencyError on
\* a ReservationExpired event matching no Running job, on a ReservationStarted
\* event only when there is no pending job at all, and on a TaskCompleted event
\* for a task held by no Running job only when individual_mode is off; a
\* ReservationStarted event that does not match the pending job is ignored
\* without any change of the scheduler's state, and in individual mode the
\* completion of a task held by no Running job is handled as any other.  An
\* event that is located never raises a ConsistencyError.
C27_ConsistencyErrors ==
    [][(/\ pc' # pc /\ pc' # "done"
        /\ last'.op \in {"start", "expire", "complete"}) =>
          LET x == last'.arg
              stopped == pc' = "fatal" /\ last'.error = "ConsistencyError"
              holders == {j \in RunningJobs : x \in ph[j].tasks}
              located == CASE last'.op = "start" -> x \in PendingJobs
                           [] last'.op = "expire" -> x \in RunningJobs
                           [] last'.op = "complete" -> holders # {}
              tolerated == /\ wms = "Zhang"
                           /\ \/ last'.op = "start" /\ pending_placeholder_job # 0
                              \/ last'.op = "complete" /\ individual_mode
          IN  /\ located => last'.error # "ConsistencyError"
              /\ (~located /\ ~tolerated) => stopped
              /\ (~located /\ tolerated) => last'.error = "none" /\ pc' # "fatal"
              /\ (~located /\ tolerated /\ last'.op = "start") =>
                    /\ last' = [NoStep("start") EXCEPT !.arg = x]
                    /\ UNCHANGED <<ph, resStatus, termReq, taskState, taskRes,
                                   pending_placeholder_job, running_placeholder_jobs,
                                   individual_mode>>]_vars

\* a scheduler has stopped with a ConsistencyError on an event it could not
\* locate
C27_StoppedOnUnlocatedEvent ==
    /\ pc = "fatal"
    /\ last.error = "ConsistencyError"
    /\ last.op \in {"start", "expire", "complete"}
    /\ last.job = 0

(***************************************************************************)
(* Leeway of the level-peeling search                                      *)
(***************************************************************************)

\* C28 as stated: at each peeling step of groupLevels the candidate makespan
\* is inflated if and only if parent_runtime > 0 and the step's own wait-time
\* estimate is less than parent_runtime, then by exactly parent_runtime minus
\* that wait time, followed by one re-query of the wait time; a step whose wait
\* time is at least parent_runtime keeps its makespan, whatever an earlier step
\* of the same search did.
C28_LeewayPerStep ==
    (last.op = "groupLevelsStep" /\ last.after.error = "none") =>
        LET g == last.before
            makespan == RangeMakespan(g.start_level, g.candidate_end_level,
                            maxParallelism(g.start_level, g.candidate_end_level))
            inflate == g.parent_runtime > 0 /\ last.w1.wait < g.parent_runtime
        IN  /\ last.after.peel_runtime1 =
                    IF inflate THEN makespan + (g.parent_runtime - last.w1.wait)
                    ELSE makespan
            /\ last.after.queries = g.queries + (IF inflate THEN 2 ELSE 1)

(***************************************************************************)
(* Level-by-Level: progression through the levels                          *)
(***************************************************************************)

\* C29 as stated: the decision tick creates the bucket of each workflow level
\* at most once and in strictly increasing level order, with and without
\* overlap: when a bucket is created for level L, no placeholder job of level L
\* or of a higher level was ever created before (a level's first bucket always
\* comes with placeholder jobs, and ph keeps every job ever created).
C29_LevelsCreatedOnceInOrder ==
    [][wms = "LevelByLevel" =>
        \A l \in (DOMAIN ongoing_levels') \ (DOMAIN ongoing_levels) :
            \A j \in DOMAIN ph : ph[j].start_level < l]_vars

\* C30 as stated: on a workflow of two or more levels, when every requested
\* reservation eventually starts, every dispatched task completes before its
\* reservation expires and events are delivered fairly, the Level-by-Level
\* scheduler eventually finds the workflow done and leaves its main loop, with
\* and without overlap.
C30_EventuallyDone == <>(pc = "done")

(***************************************************************************)
(* Dynamic Grouping: progress, contiguity, races                           *)
(***************************************************************************)

\* C31 as stated: under fair event delivery, with every requested reservation
\* eventually starting or expiring and finitely many expirations, the Dynamic
\* Grouping scheduler's workflow eventually becomes done: the scheduler never
\* ends waiting with a task that is not Completed and that nothing will submit
\* (a run that stops on a fatal error is left aside).
C31_EventuallyDoneOrStopped == <>(pc \in {"done", "fatal"})

\* every task of level l is Completed
LevelCompleted(st, l) ==
    \A t \in Range(getTasksInTopLevelRange(l, l)) : st[t] = "Completed"

\* level l lies inside the level range of one of the given placeholder jobs
LevelInRangeOf(l, jobs, phs) ==
    \E r \in jobs : phs[r].start_level <= l /\ l <= phs[r].end_level

\* C32 as stated: whenever the Dynamic Grouping scheduler creates a placeholder
\* job for the level range [s, e], every level below s is fully Completed or
\* lies inside the level range of a placeholder job that is running at that
\* time: no level with a task that is not Completed is skipped.
C32_NoLevelSkipped ==
    [][wms = "Zhang" =>
        \A j \in last'.created \ DOMAIN ph :
            \A l \in 0..(ph'[j].start_level - 1) :
                \/ LevelCompleted(taskState', l)
                \/ LevelInRangeOf(l, running_placeholder_jobs', ph')]_vars

\* the request of task t to a reservation was refused: no placeholder job the
\* scheduler holds as running with t among its tasks has a reservation that is up
RefusedByReservation(t) ==
    \A j \in DOMAIN ph :
        (t \in ph[j].tasks /\ j \in running_placeholder_jobs \cup running_placeholder_jobs')
            => resStatus[j] # "started"

\* C33 as stated: in both schedulers a task never has two execution requests
\* outstanding at the same time: every task a step submits, to a reservation
\* or as a singleton request, was Ready (not Pending) when the step began, and
\* a step submits a task both ways only when the reservation, already gone,
\* refused the first request.
C33_NoDoubleDispatch ==
    [][(pc' # pc /\ pc' # "done") =>
        /\ \A t \in last'.dispatched \cup last'.singles : taskState[t] = "Ready"
        /\ \A t \in last'.dispatched \cap last'.singles : RefusedByReservation(t)]_vars

\* a completion handled in individual mode submitted the Ready tasks while
\* another task had its request outstanding
C33_SubmittedBesideOutstanding ==
    /\ wms = "Zhang"
    /\ last.op = "complete"
    /\ last.singles # {}
    /\ \E t \in Tasks \ last.singles : taskState[t] = "Pending"

\* C34 as stated: outside individual mode, the Dynamic Grouping scheduler's
\* handling of the completion of a task that was dispatched inside a running
\* placeholder job never raises the fatal error of a task without placeholder
\* job, even when several tasks of the job completed before their events were
\* handled.
C34_CompletionNeverAborts ==
    (/\ wms = "Zhang"
     /\ last.op = "complete"
     /\ ~individual_mode
     /\ taskRes[last.arg] \in DOMAIN ph) => last.error # "ConsistencyError"

\* C35 as stated: the start event of a reservation the Dynamic Grouping
\* scheduler cancelled earlier (as its pending job, during an expiration) is
\* ignored: it is never fatal and the step creates, cancels and submits
\* nothing, whether or not another placeholder job is pending at that time.
C35_LateStartIgnored ==
    (/\ wms = "Zhang"
     /\ last.op = "start"
     /\ termReq[last.arg] > 0) =>
        /\ last.error = "none"
        /\ last.job = 0
        /\ last.created = {} /\ last.terminated = {}
        /\ last.dispatched = {} /\ last.singles = {}

\* the number of tasks of placeholder job j whose state is Completed
CompletedTasksOf(j) == Cardinality({t \in ph[j].tasks : taskState[t] = "Completed"})

\* a completion event waits in the mailbox
CompletionQueued == \E i \in DOMAIN events : events[i].type = "StandardJobCompleted"

\* the expiration handler's counter-based test agrees with the state-based
\* selection of the leftovers: the handler located its job and did nothing
\* exactly when no task of the job was left
LBL_TestAgreesWithLeftovers ==
    (wms = "LevelByLevel" /\ last.op = "expire" /\ last.job # 0) =>
        /\ (last.created = {}) <=> (last.work = {})
        /\ \A j \in last.created : ph[j].tasks = last.work

\* C36 as stated: for every Running placeholder job of the Level-by-Level
\* scheduler, between event deliveries num_completed_tasks equals the number of
\* its tasks whose state is Completed and never exceeds the group size, and the
\* expiration handler's counter-based test agrees with the state-based
\* selection of the leftover tasks.
C36_CounterEqualsCompleted ==
    /\ wms = "LevelByLevel" =>
            \A j \in RunningJobs :
                /\ ph[j].num_completed_tasks = CompletedTasksOf(j)
                /\ ph[j].num_completed_tasks <= Cardinality(ph[j].tasks)
    /\ LBL_TestAgreesWithLeftovers

\* C36 amended: the counter of a Running placeholder job never exceeds the
\* number of its Completed tasks nor the group size; it equals the number of
\* Completed tasks once no completion event waits in the mailbox, and whenever
\* the job's expiration event is the next to be handled; the expiration
\* handler's test agrees with the state-based selection of the leftovers.
C36_CounterLagsByQueuedEvents ==
    /\ wms = "LevelByLevel" =>
            \A j \in RunningJobs :
                /\ ph[j].num_completed_tasks <= CompletedTasksOf(j)
                /\ ph[j].num_completed_tasks <= Cardinality(ph[j].tasks)
                /\ ~CompletionQueued => ph[j].num_completed_tasks = CompletedTasksOf(j)
                /\ (events # <<>> /\ NextEvent = [type |-> "PilotJobExpired", id |-> j])
                        => ph[j].num_completed_tasks = CompletedTasksOf(j)
    /\ LBL_TestAgreesWithLeftovers

\* the expiration of a job that had completed some of its tasks was handled:
\* the replacement holds exactly the tasks that were left
C36_ExpirationAfterCompletions ==
    /\ wms = "LevelByLevel"
    /\ last.op = "expire"
    /\ last.job # 0
    /\ ph[last.job].num_completed_tasks > 0
    /\ last.created # {}
    /\ \A j \in last.created : ph[j].tasks = last.work

====
